---- MODULE Spec2Model ----
(***************************************************************************)
(* ThreatExchange reference client (TE.py, class Net): the read path       *)
(* (getJSONFromURL, the two cursor paginators, getInfoForIDs) and the      *)
(* write path (submit / update / copy and _postThreatDescriptor).          *)
(*                                                                         *)
(* One behaviour is one call of one operation of Net.  The remote server   *)
(* is the environment: every answer it gives is a nondeterministic choice. *)
(* Variables whose name ends in Log, and served / lastCode, are history    *)
(* variables kept on the server's side of the wire; the client's code      *)
(* never reads them.                                                       *)
(***************************************************************************)
EXTENDS Integers, Sequences, FiniteSets, TLC

\* ------------------------------------------------------------------------
\* Bounds of the model
MaxPages == 2        \* pages the server serves in one pagination
MaxRecords == 3      \* records in one event of the lambda
MaxPageItems == 2    \* items in one page

\* ------------------------------------------------------------------------
\* Program constants
MaxRetries == 4           \* numTries > 4
ServerErrorLow == 500     \* error.code < 500
ServerErrorHigh == 600    \* error.code >= 600
THREAT_DESCRIPTOR == "THREAT_DESCRIPTOR"

\* ------------------------------------------------------------------------
\* Python / JSON values.  Every value is a record [t, v]: t is its type and
\* v a sequence holding its content, so that values of different types can
\* be told apart by equality.
None == [t |-> "null", v |-> <<>>]
Str(s) == [t |-> "str", v |-> <<s>>]
\* a Python list of strings
List(xs) == [t |-> "list", v |-> xs]
\* the wire shape of tags: {"data": [{"text": x}, ...]}
TagsWrapper(texts) == [t |-> "wrapped", v |-> texts]
\* the wire shape of reactions: a mapping of owner to reaction
ReactionsMap == [t |-> "map", v |-> <<>>]

\* ------------------------------------------------------------------------
\* The values of the write operations' result list
\* an error message: its text, the joined field names as further elements
Msg(tokens) == [t |-> "str", v |-> tokens]
\* the HTTPError object e caught by _postThreatDescriptor
ErrorObject(code) == [t |-> "HTTPError", v |-> <<code>>]
\* a decoded JSON object of the server
JSONObject(name) == [t |-> "json", v |-> <<name>>]
Result(validationError, transportError, body) ==
    [validationError |-> validationError, transportError |-> transportError, body |-> body]
\* nothing returned yet
NoResult == Result(None, None, None)

\* Python dicts are functions from key strings to values.
EmptyDict == [k \in {} |-> None]
DictGet(d, k) == IF k \in DOMAIN d THEN d[k] ELSE None
DictDel(d, k) == [x \in DOMAIN d \ {k} |-> d[x]]
DictPut(d, k, val) == [x \in DOMAIN d \cup {k} |-> IF x = k THEN val ELSE d[x]]
\* d.update(e): e's values win
DictUpdate(d, e) == [x \in DOMAIN d \cup DOMAIN e |-> IF x \in DOMAIN e THEN e[x] ELSE d[x]]

\* Tag texts are sequences of code points; Python compares strings
\* lexicographically by code point.
RECURSIVE StrLeq(_, _)
StrLeq(a, b) ==
    IF a = <<>> THEN TRUE
    ELSE IF b = <<>> THEN FALSE
    ELSE IF Head(a) < Head(b) THEN TRUE
    ELSE IF Head(a) > Head(b) THEN FALSE
    ELSE StrLeq(Tail(a), Tail(b))

\* insertion of x into the sorted sequence s, after its equals (stable)
RECURSIVE Insert(_, _)
Insert(x, s) ==
    IF s = <<>> THEN <<x>>
    ELSE IF StrLeq(Head(s), x) THEN <<Head(s)>> \o Insert(x, Tail(s))
    ELSE <<x>> \o s

\* sorted(xs) / xs.sort()
RECURSIVE Sorted(_)
Sorted(xs) == IF xs = <<>> THEN <<>> ELSE Insert(xs[Len(xs)], Sorted(SubSeq(xs, 1, Len(xs) - 1)))

\* ------------------------------------------------------------------------
\* What the server can answer

\* URLs are opaque.  NoURL is Python's None in the place of a URL.
NoURL == "None"
TaggedObjectsURL == "tagged_objects"        \* startURL of processDescriptorIDsByTagID
ThreatDescriptorsURL == "threat_descriptors" \* startURL of doPowerSearch
ThreatTagsURL == "threat_tags"              \* url of a direct call of getJSONFromURL
\* continuation pointers the server can hand out in paging.next
NextURLs == {"next1", "next2"}

\* HTTP error statuses the server can answer with
StatusCodes == {404, 500, 599, 600}

\* an item of a tagged_objects page: {"id": .., "type": .., "name": ..}
TaggedObject(id, type, name) ==
    [k \in {"id", "type", "name"} |->
        IF k = "id" THEN Str(id) ELSE IF k = "type" THEN Str(type) ELSE Str(name)]

TaggedObjects ==
    { TaggedObject("1", THREAT_DESCRIPTOR, "n1"),
      TaggedObject("2", "MALWARE_DESCRIPTOR", "n2"),
      TaggedObject("3", THREAT_DESCRIPTOR, "n3") }

\* items of a threat_descriptors page: the fields the request asks for,
\* those without a value left out by the server
SearchDescriptors ==
    { [k \in {"id", "raw_indicator", "type", "tags"} |->
        IF k = "id" THEN Str("10")
        ELSE IF k = "raw_indicator" THEN Str("abc")
        ELSE IF k = "type" THEN Str("HASH_MD5")
        ELSE TagsWrapper(<< <<98>>, <<97>> >>)],
      [k \in {"id", "raw_indicator", "type", "description"} |->
        IF k = "id" THEN Str("11")
        ELSE IF k = "raw_indicator" THEN Str("http://x")
        ELSE IF k = "type" THEN Str("URI")
        ELSE Str("d")] }

\* the sequences of at most n distinct elements of S
SeqsNoRep(S, n) ==
    UNION { { s \in [1..k -> S] : \A i, j \in 1..k : i # j => s[i] # s[j] } : k \in 0..n }

\* a decoded page: the data array and the paging object ("next" absent when
\* next = NoURL; no paging object at all when hasPaging is FALSE)
Page(data, hasPaging, next) == [data |-> data, hasPaging |-> hasPaging, next |-> next]

PagesOf(items) ==
    { Page(data, FALSE, NoURL) : data \in SeqsNoRep(items, MaxPageItems) }
    \cup { Page(data, TRUE, next) :
             data \in SeqsNoRep(items, MaxPageItems), next \in NextURLs \cup {NoURL} }

\* url of getInfoForIDs
InfoURL == "descriptors_by_ids"
\* url of updateThreatDescriptor: TE_BASE_URL + "/" + descriptor_id
UpdateURL(descriptorID) == descriptorID.v[1]

\* what getInfoForIDs' request for one id can be answered with: the
\* descriptors of the response object, in the order of its items
SourceDescriptors ==
    { [k \in {"id", "raw_indicator", "type", "description", "share_level", "status",
              "privacy_type", "tags", "reactions", "last_updated"} |->
        IF k = "id" THEN Str("7")
        ELSE IF k = "raw_indicator" THEN Str("abc")
        ELSE IF k = "tags" THEN TagsWrapper(<< <<98, 97>>, <<98>>, <<97>> >>)
        ELSE IF k = "reactions" THEN ReactionsMap
        ELSE Str("s")],
      [k \in {"id", "raw_indicator", "type", "share_level", "status", "privacy_type"} |->
        IF k = "id" THEN Str("7")
        ELSE IF k = "raw_indicator" THEN Str("abc")
        ELSE Str("s")],
      [k \in {"id", "raw_indicator", "type", "description", "status", "privacy_type"} |->
        IF k = "id" THEN Str("7")
        ELSE IF k = "raw_indicator" THEN Str("abc")
        ELSE IF k = "description" THEN None
        ELSE Str("s")],
      [k \in {"id", "raw_indicator", "type", "description", "share_level", "status",
              "privacy_type", "tags", "reactions"} |->
        IF k = "id" THEN Str("7")
        ELSE IF k = "raw_indicator" THEN Str("abc")
        ELSE IF k = "tags" THEN None
        ELSE IF k = "reactions" THEN ReactionsMap
        ELSE Str("s")] }

InfoResponses == {<<>>} \cup { <<d>> : d \in SourceDescriptors }

\* The id lists getInfoForIDs is called with (an id is the sequence of its
\* characters), and what the server can answer: descriptors for some of
\* the ids, each under an id of its own.
IDLists ==
    { << <<"7">> >>, << <<"7">>, <<"8">> >>, << <<"x">> >>, << <<"7">>, <<"8", "_">> >>,
      << <<" ", "7">>, <<"-", "8">> >>, << <<"7">>, <<"8">>, <<"9", "x">> >> }
InfoIDs == <<"7", "8", "9">>
InfoBodies ==
    { [i \in 1..Len(s) |-> DictPut(s[i], "id", Str(InfoIDs[i]))] :
        s \in SeqsNoRep(SourceDescriptors, MaxPageItems) }

\* JSON bodies of the answers to a POST
PostBodies == {JSONObject("success")}
ErrorBodies == {JSONObject("error")}

\* The field maps a caller passes to a write operation: each key absent or
\* present (tags as the comma-delimited string of the post data);
\* descriptor_id well-formed or not; status possibly None.
Absent == [t |-> "absent", v |-> <<>>]
PlainKeys == {"indicator", "type", "description", "share_level", "privacy_type", "privacy_members"}
DictOf(f) == [k \in {x \in DOMAIN f : f[x] # Absent} |-> f[k]]
ParamMaps ==
    { DictOf([k \in PlainKeys \cup {"descriptor_id", "status", "tags"} |->
                 IF k = "descriptor_id" THEN id
                 ELSE IF k = "status" THEN st
                 ELSE IF k = "tags" THEN tg
                 ELSE IF k = "description" /\ f[k] # Absent THEN Str("d")
                 ELSE f[k]]) :
        f \in [PlainKeys -> {Absent, Str("c")}],
        id \in {Absent, Str("7"), Str("x")},
        st \in {Absent, None, Str("c")},
        tg \in {Absent, Str("t")} }

\* The field maps a validator is called with: each of the keys the
\* validators look at absent, None, or a string.
ValidatedKeys ==
    {"descriptor_id", "indicator", "type", "description", "share_level", "status",
     "privacy_type", "privacy_members"}
FieldMaps == { DictOf(f) : f \in [ValidatedKeys -> {Absent, None, Str("c")}] }

\* The raw records the normalization can meet in a response: tags absent,
\* null or wrapped (in order, out of order, with a text twice); description
\* absent, null, empty or not.
RawDescriptors ==
    { DictOf([k \in {"id", "raw_indicator", "tags", "description", "status"} |->
                 IF k = "id" THEN id
                 ELSE IF k = "raw_indicator" THEN Str("abc")
                 ELSE IF k = "tags" THEN tg
                 ELSE IF k = "description" THEN ds
                 ELSE st]) :
        id \in {Str("7"), Str("8")},
        tg \in {Absent, None, TagsWrapper(<<>>), TagsWrapper(<< <<97>> >>),
                TagsWrapper(<< <<98>>, <<97>> >>), TagsWrapper(<< <<97>>, <<97>> >>),
                TagsWrapper(<< <<98>>, <<97>>, <<98>> >>)},
        ds \in {Absent, None, Str(""), Str("d")},
        st \in {Absent, Str("s")} }

\* The host's local time zones: the UTC offset in seconds before and from
\* the one transition at the epoch second "at".
UTC == [before |-> 0, from |-> 0, at |-> 0]

\* ------------------------------------------------------------------------
\* Faults (raised exceptions)
NoFault == [kind |-> "none", code |-> 0]
HTTPError(code) == [kind |-> "HTTPError", code |-> code]
Fault(kind) == [kind |-> kind, code |-> 0]

\* ------------------------------------------------------------------------
\* Variants of RetryDecision with a slip in them, for testing the properties:
\* one retry too many ...
RetryDecision_OneMore(code, tries) ==
    IF code < ServerErrorLow \/ code >= ServerErrorHigh THEN "raise"
    ELSE IF tries > MaxRetries + 1 THEN "raise"
    ELSE "retry"

\* ... and every error status retried
RetryDecision_AnyStatus(code, tries) ==
    IF tries > MaxRetries THEN "raise" ELSE "retry"

\* ... and one retry too few
RetryDecision_OneLess(code, tries) ==
    IF code < ServerErrorLow \/ code >= ServerErrorHigh THEN "raise"
    ELSE IF tries > MaxRetries - 1 THEN "raise"
    ELSE "retry"

\* getJSONFromURL: what follows an HTTPError answer, numTries already counted
RetryDecision(code, tries) ==
    IF code < ServerErrorLow \/ code >= ServerErrorHigh THEN "raise"
    ELSE IF tries > MaxRetries THEN "raise"
    ELSE "retry"

\* The paginators' reading of the continuation pointer:
\*   nextURL = None; if "paging" in response: if "next" in paging: nextURL = paging["next"]
NextURLOf(resp) == IF resp.hasPaging /\ resp.next # NoURL THEN resp.next ELSE NoURL

\* A variant of TagPageIDs that forgets the type filter
TagPageIDs_NoFilter(data, include) ==
    LET F[i \in 0..Len(data)] ==
          IF i = 0 THEN [error |-> "none", out |-> <<>>]
          ELSE LET prev == F[i - 1]
                   item == data[i]
               IN  IF prev.error # "none" THEN prev
                   ELSE IF ~ ({"id", "type", "name"} \subseteq DOMAIN item)
                        THEN [error |-> "KeyError", out |-> prev.out]
                   ELSE [error |-> "none", out |-> Append(prev.out, item["id"])]
    IN  F[Len(data)]

\* processDescriptorIDsByTagID, the loop over the items of one page.  Reading
\* item["id"], item["type"] and item["name"] (or deleting item["name"])
\* raises KeyError when the key is missing; the ids of the items of type
\* THREAT_DESCRIPTOR are collected in page order.
TagPageIDs(data, include) ==
    LET F[i \in 0..Len(data)] ==
          IF i = 0 THEN [error |-> "none", out |-> <<>>]
          ELSE LET prev == F[i - 1]
                   item == data[i]
               IN  IF prev.error # "none" THEN prev
                   ELSE IF ~ ({"id", "type", "name"} \subseteq DOMAIN item)
                        THEN [error |-> "KeyError", out |-> prev.out]
                   ELSE IF item["type"] # Str(THREAT_DESCRIPTOR) THEN prev
                   ELSE [error |-> "none", out |-> Append(prev.out, item["id"])]
    IN  F[Len(data)]

\* A variant of Canonicalize that leaves the tag texts in the server's order
Canonicalize_Unsorted(descriptor) ==
    LET tags == DictGet(descriptor, "tags")
        withDescription(d) ==
            IF DictGet(d, "description") = None THEN DictPut(d, "description", Str("")) ELSE d
    IN  IF tags = None
        THEN [error |-> "none", value |-> withDescription(DictPut(descriptor, "tags", List(<<>>)))]
        ELSE IF tags.t = "wrapped"
        THEN [error |-> "none",
              value |-> withDescription(DictPut(descriptor, "tags", List(tags.v)))]
        ELSE IF tags.t = "map" THEN [error |-> "KeyError", value |-> descriptor]
        ELSE [error |-> "TypeError", value |-> descriptor]

\* A variant of Canonicalize that keeps each tag text once
Canonicalize_Deduplicated(descriptor) ==
    LET tags == DictGet(descriptor, "tags")
        withDescription(d) ==
            IF DictGet(d, "description") = None THEN DictPut(d, "description", Str("")) ELSE d
        first(xs) == { i \in DOMAIN xs : \A j \in 1..(i - 1) : xs[j] # xs[i] }
        Distinct[i \in 0..Len(tags.v)] ==
            IF i = 0 THEN <<>>
            ELSE IF i \in first(tags.v) THEN Append(Distinct[i - 1], tags.v[i])
            ELSE Distinct[i - 1]
    IN  IF tags = None
        THEN [error |-> "none", value |-> withDescription(DictPut(descriptor, "tags", List(<<>>)))]
        ELSE IF tags.t = "wrapped"
        THEN [error |-> "none",
              value |-> withDescription(DictPut(descriptor, "tags",
                                                List(Sorted(Distinct[Len(tags.v)]))))]
        ELSE IF tags.t = "map" THEN [error |-> "KeyError", value |-> descriptor]
        ELSE [error |-> "TypeError", value |-> descriptor]

\* Canonicalization of one descriptor (getInfoForIDs and doPowerSearch):
\*   tags = descriptor.get("tags", None)
\*   tags = [] if tags is None else tags["data"]
\*   descriptor["tags"] = sorted(tag["text"] for tag in tags)
\*   if descriptor.get("description") is None: descriptor["description"] = ""
\* tags["data"] raises TypeError on a list and KeyError on a mapping
\* without "data".
Canonicalize(descriptor) ==
    LET tags == DictGet(descriptor, "tags")
        withDescription(d) ==
            IF DictGet(d, "description") = None THEN DictPut(d, "description", Str("")) ELSE d
    IN  IF tags = None
        THEN [error |-> "none", value |-> withDescription(DictPut(descriptor, "tags", List(<<>>)))]
        ELSE IF tags.t = "wrapped"
        THEN [error |-> "none",
              value |-> withDescription(DictPut(descriptor, "tags", List(Sorted(tags.v))))]
        ELSE IF tags.t = "map" THEN [error |-> "KeyError", value |-> descriptor]
        ELSE [error |-> "TypeError", value |-> descriptor]

\* doPowerSearch, the loop over the items of one page: with
\* includeIndicatorInOutput false, del descriptor["name"]; then the
\* canonicalization.  No item is filtered out.
SearchPageDescriptors(data, include) ==
    LET F[i \in 0..Len(data)] ==
          IF i = 0 THEN [error |-> "none", out |-> <<>>]
          ELSE LET prev == F[i - 1]
                   item == data[i]
                   kept == IF include THEN item ELSE DictDel(item, "name")
                   canon == Canonicalize(kept)
               IN  IF prev.error # "none" THEN prev
                   ELSE IF ~ include /\ "name" \notin DOMAIN item
                        THEN [error |-> "KeyError", out |-> prev.out]
                   ELSE IF canon.error # "none" THEN [error |-> canon.error, out |-> prev.out]
                   ELSE [error |-> "none", out |-> Append(prev.out, canon.value)]
    IN  F[Len(data)]

\* ------------------------------------------------------------------------
\* The write path: validators, copy, submit

POST_PARAM_NAMES ==
    { "indicator", "type", "descriptor_id", "description", "share_level", "status",
      "privacy_type", "privacy_members", "tags", "add_tags", "remove_tags", "confidence",
      "precision", "review_status", "severity", "expired_on", "first_active", "last_active",
      "related_ids_for_upload", "related_triples_for_upload_as_json", "reactions",
      "reactions_to_remove" }

\* requiredFields of validatePostPararmsForSubmit
RequiredFields == <<"indicator", "type", "description", "share_level", "status", "privacy_type">>

\* Variants of ValidateSubmit: one that looks for missing fields before it
\* looks at descriptor_id ...
ValidateSubmit_MissingFirst(postParams) ==
    LET missingFields ==
            SelectSeq(RequiredFields, LAMBDA fieldName : DictGet(postParams, fieldName) = None)
    IN  IF missingFields # <<>>
        THEN IF Len(missingFields) = 1 THEN Msg(<<"Missing field">> \o missingFields)
             ELSE Msg(<<"Missing fields">> \o missingFields)
        ELSE IF DictGet(postParams, "descriptor_id") # None
        THEN Msg(<<"descriptor_id must not be specified for submit.">>)
        ELSE None

\* ... and one that reports the first missing field only
ValidateSubmit_FirstMissingOnly(postParams) ==
    IF DictGet(postParams, "descriptor_id") # None
    THEN Msg(<<"descriptor_id must not be specified for submit.">>)
    ELSE LET missingFields ==
                 SelectSeq(RequiredFields, LAMBDA fieldName : DictGet(postParams, fieldName) = None)
         IN  IF missingFields = <<>> THEN None
             ELSE Msg(<<"Missing field", missingFields[1]>>)

\* validatePostPararmsForSubmit: the error message, or None
ValidateSubmit(postParams) ==
    IF DictGet(postParams, "descriptor_id") # None
    THEN Msg(<<"descriptor_id must not be specified for submit.">>)
    ELSE LET missingFields ==
                 SelectSeq(RequiredFields, LAMBDA fieldName : DictGet(postParams, fieldName) = None)
         IN  IF missingFields = <<>> THEN None
             ELSE IF Len(missingFields) = 1 THEN Msg(<<"Missing field">> \o missingFields)
             ELSE Msg(<<"Missing fields">> \o missingFields)

\* A variant of ValidateUpdate that looks at indicator and type before
\* descriptor_id
ValidateUpdate_IndicatorFirst(postParams) ==
    IF DictGet(postParams, "indicator") # None
    THEN Msg(<<"Indicator must not be specified for update.">>)
    ELSE IF DictGet(postParams, "type") # None
    THEN Msg(<<"Type must not be specified for update.">>)
    ELSE IF DictGet(postParams, "descriptor_id") = None
    THEN Msg(<<"Descriptor ID must be specified for update.">>)
    ELSE None

\* validatePostPararmsForUpdate: the error message, or None
ValidateUpdate(postParams) ==
    IF DictGet(postParams, "descriptor_id") = None
    THEN Msg(<<"Descriptor ID must be specified for update.">>)
    ELSE IF DictGet(postParams, "indicator") = None
    THEN IF DictGet(postParams, "type") # None
         THEN Msg(<<"Type must not be specified for update.">>)
         ELSE None
    ELSE Msg(<<"Indicator must not be specified for update.">>)

\* A variant of ValidateCopy that looks at privacy_members before privacy_type
ValidateCopy_MembersFirst(postParams) ==
    IF DictGet(postParams, "descriptor_id") = None
    THEN Msg(<<"Source-descriptor ID must be specified for copy.">>)
    ELSE IF DictGet(postParams, "privacy_members") = None
    THEN Msg(<<"Privacy members must be specified for copy.">>)
    ELSE IF DictGet(postParams, "privacy_type") = None
    THEN Msg(<<"Privacy type must be specified for copy.">>)
    ELSE None

\* validatePostPararmsForCopy: the error message, or None
ValidateCopy(postParams) ==
    IF DictGet(postParams, "descriptor_id") = None
    THEN Msg(<<"Source-descriptor ID must be specified for copy.">>)
    ELSE IF DictGet(postParams, "privacy_type") = None
    THEN Msg(<<"Privacy type must be specified for copy.">>)
    ELSE IF DictGet(postParams, "privacy_members") = None
    THEN Msg(<<"Privacy members must be specified for copy.">>)
    ELSE None

\* int(id) of getInfoForIDs succeeds: the characters of the string are,
\* between optional white space, an optional sign and digits, with single
\* underscores allowed between digits.
Digits == {"0", "1", "2", "3", "4", "5", "6", "7", "8", "9"}
WhiteSpace == {" ", "\t", "\n"}

RECURSIVE StripLeft(_)
StripLeft(cs) == IF cs # <<>> /\ Head(cs) \in WhiteSpace THEN StripLeft(Tail(cs)) ELSE cs

RECURSIVE StripRight(_)
StripRight(cs) ==
    IF cs # <<>> /\ cs[Len(cs)] \in WhiteSpace THEN StripRight(SubSeq(cs, 1, Len(cs) - 1)) ELSE cs

IsIntLiteral(chars) ==
    LET stripped == StripRight(StripLeft(chars))
        unsigned == IF stripped # <<>> /\ Head(stripped) \in {"+", "-"}
                    THEN Tail(stripped) ELSE stripped
        n == Len(unsigned)
    IN  /\ n > 0
        /\ \A i \in 1..n : unsigned[i] \in Digits \cup {"_"}
        /\ unsigned[1] \in Digits
        /\ unsigned[n] \in Digits
        /\ \A i \in 1..(n - 1) : ~ (unsigned[i] = "_" /\ unsigned[i + 1] = "_")

\* getInfoForIDs, the loop over the descriptors of the response: with
\* includeIndicatorInOutput false, del descriptor["raw_indicator"]; then the
\* canonicalization.
InfoDescriptors(items, include) ==
    LET F[i \in 0..Len(items)] ==
          IF i = 0 THEN [error |-> "none", out |-> <<>>]
          ELSE LET prev == F[i - 1]
                   item == items[i]
                   kept == IF include THEN item ELSE DictDel(item, "raw_indicator")
                   canon == Canonicalize(kept)
               IN  IF prev.error # "none" THEN prev
                   ELSE IF ~ include /\ "raw_indicator" \notin DOMAIN item
                        THEN [error |-> "KeyError", out |-> prev.out]
                   ELSE IF canon.error # "none" THEN [error |-> canon.error, out |-> prev.out]
                   ELSE [error |-> "none", out |-> Append(prev.out, canon.value)]
    IN  F[Len(items)]

\* A variant of CopyPayload without the filter on POST_PARAM_NAMES
CopyPayload_Unfiltered(sourceDescriptor, postParams) ==
    LET withIndicator == DictPut(sourceDescriptor, "indicator", sourceDescriptor["raw_indicator"])
        noRaw == DictDel(withIndicator, "raw_indicator")
        noNullTags == IF "tags" \in DOMAIN noRaw /\ noRaw["tags"] = None
                      THEN DictDel(noRaw, "tags") ELSE noRaw
        noReactions == DictDel(noNullTags, "reactions")
    IN  DictUpdate(noReactions, postParams)

\* A variant of CopyPayload with the update the other way round: the
\* source's value kept where both have the key
CopyPayload_SourceWins(sourceDescriptor, postParams) ==
    LET withIndicator == DictPut(sourceDescriptor, "indicator", sourceDescriptor["raw_indicator"])
        noRaw == DictDel(withIndicator, "raw_indicator")
        noNullTags == IF "tags" \in DOMAIN noRaw /\ noRaw["tags"] = None
                      THEN DictDel(noRaw, "tags") ELSE noRaw
        noReactions == DictDel(noNullTags, "reactions")
        newDescriptor == DictUpdate(postParams, noReactions)
    IN  [key \in DOMAIN newDescriptor \cap POST_PARAM_NAMES |-> newDescriptor[key]]

\* copyThreatDescriptor, from the source descriptor to the postParams handed
\* to submit (sourceDescriptor has the key raw_indicator)
CopyPayload(sourceDescriptor, postParams) ==
    LET withIndicator == DictPut(sourceDescriptor, "indicator", sourceDescriptor["raw_indicator"])
        noRaw == DictDel(withIndicator, "raw_indicator")
        noNullTags == IF "tags" \in DOMAIN noRaw /\ noRaw["tags"] = None
                      THEN DictDel(noRaw, "tags") ELSE noRaw
        noReactions == DictDel(noNullTags, "reactions")
        newDescriptor == DictUpdate(noReactions, postParams)
    IN  [key \in DOMAIN newDescriptor \cap POST_PARAM_NAMES |-> newDescriptor[key]]

\* ------------------------------------------------------------------------
\* The time parser.  Strings are sequences of one-character strings.

\* a Python int
PyInt(n) == [t |-> "int", v |-> <<n>>]

DigitValue(c) == CHOOSE n \in 0..9 : <<"0", "1", "2", "3", "4", "5", "6", "7", "8", "9">>[n + 1] = c

\* the number a string of decimal digits denotes
RECURSIVE DigitsValue(_)
DigitsValue(ds) ==
    IF ds = <<>> THEN 0
    ELSE DigitsValue(SubSeq(ds, 1, Len(ds) - 1)) * 10 + DigitValue(ds[Len(ds)])

\* int(chars) for a string int() accepts: white space stripped, the sign
\* applied, the underscores dropped
IntValue(chars) ==
    LET stripped == StripRight(StripLeft(chars))
        signed == Head(stripped) \in {"+", "-"}
        unsigned == IF signed THEN Tail(stripped) ELSE stripped
        magnitude == DigitsValue(SelectSeq(unsigned, LAMBDA c : c # "_"))
    IN  IF Head(stripped) = "-" THEN 0 - magnitude ELSE magnitude

\* the longest run of decimal digits the string begins with
RECURSIVE DigitRun(_)
DigitRun(chars) ==
    IF chars # <<>> /\ Head(chars) \in Digits THEN <<Head(chars)>> \o DigitRun(Tail(chars))
    ELSE <<>>

Drop(chars, n) == SubSeq(chars, n + 1, Len(chars))

\* DATETIME_FORMATS, a directive or a literal character per element
DATETIME_FORMATS ==
    << <<"%Y", "-", "%m", "-", "%d", "T", "%H", ":", "%M", ":", "%S", "%z">>,
       <<"%Y", "-", "%m", "-", "%d", " ", "%H", ":", "%M", ":", "%S">>,
       <<"%Y", "/", "%m", "/", "%d", " ", "%H", ":", "%M", ":", "%S">>,
       <<"%Y", "-", "%m", "-", "%d", "T", "%H", ":", "%M", ":", "%S">>,
       <<"%Y", "-", "%m", "-", "%d", "T", "%H", ":", "%M", ":", "%S", "Z">> >>

\* the values strptime's pattern lets a numeric directive take
DirectiveRange(directive) ==
    IF directive = "%Y" THEN 0..9999
    ELSE IF directive = "%m" THEN 1..12
    ELSE IF directive = "%d" THEN 1..31
    ELSE IF directive = "%H" THEN 0..23
    ELSE IF directive = "%M" THEN 0..59
    ELSE 0..61

NoMatch == [matched |-> FALSE]

\* %z at the end of the string: Z, or a sign, two digits of hours, an
\* optional colon and two digits of minutes; the offset in seconds
UTCOffsetOf(chars) ==
    LET digits == SelectSeq(Tail(chars), LAMBDA c : c # ":")
    IN  IF chars = <<"Z">> THEN [matched |-> TRUE, seconds |-> 0]
        ELSE IF /\ Len(chars) \in {5, 6}
                /\ chars[1] \in {"+", "-"}
                /\ Len(chars) = 6 => chars[4] = ":"
                /\ Len(digits) = 4
                /\ \A i \in 1..4 : digits[i] \in Digits
                /\ DigitValue(digits[3]) <= 5
        THEN [matched |-> TRUE,
              seconds |-> (IF chars[1] = "-" THEN 0 - 1 ELSE 1)
                          * (DigitsValue(SubSeq(digits, 1, 2)) * 3600
                             + DigitsValue(SubSeq(digits, 3, 4)) * 60)]
        ELSE NoMatch

\* the letters of the formats match in either case
SameLetter(a, b) == a = b \/ {a, b} = {"T", "t"} \/ {a, b} = {"Z", "z"}

\* strptime's matching of the string against the format: the fields found,
\* the whole string used up
RECURSIVE MatchFormat(_, _, _)
MatchFormat(format, chars, fields) ==
    IF format = <<>>
    THEN IF chars = <<>> THEN [matched |-> TRUE, fields |-> fields] ELSE NoMatch
    ELSE LET directive == Head(format)
             run == DigitRun(chars)
         IN  IF directive = "%z"
             THEN LET offset == UTCOffsetOf(chars)
                  IN  IF offset.matched /\ Tail(format) = <<>>
                      THEN [matched |-> TRUE, fields |-> fields @@ ("%z" :> offset.seconds)]
                      ELSE NoMatch
             ELSE IF directive \in {"%Y", "%m", "%d", "%H", "%M", "%S"}
             THEN IF /\ Len(run) \in (IF directive = "%Y" THEN {4} ELSE {1, 2})
                     /\ DigitsValue(run) \in DirectiveRange(directive)
                  THEN MatchFormat(Tail(format), Drop(chars, Len(run)),
                                   fields @@ (directive :> DigitsValue(run)))
                  ELSE NoMatch
             ELSE IF chars # <<>> /\ SameLetter(Head(chars), directive)
             THEN MatchFormat(Tail(format), Tail(chars), fields)
             ELSE NoMatch

IsLeapYear(y) == (y % 4 = 0 /\ y % 100 # 0) \/ y % 400 = 0

DaysInMonth(y, m) ==
    IF m = 2 THEN (IF IsLeapYear(y) THEN 29 ELSE 28)
    ELSE IF m \in {4, 6, 9, 11} THEN 30 ELSE 31

\* the days from 1970-01-01 to the date
DaysFromCivil(year, m, d) ==
    LET y == IF m <= 2 THEN year - 1 ELSE year
        era == y \div 400
        yoe == y - era * 400
        doy == (153 * (IF m > 2 THEN m - 3 ELSE m + 9) + 2) \div 5 + d - 1
        doe == yoe * 365 + yoe \div 4 - yoe \div 100 + doy
    IN  era * 146097 + doe - 719468

\* the zone's UTC offset at an epoch second
OffsetAt(z, epoch) == IF epoch < z.at THEN z.before ELSE z.from

\* naive local time to epoch seconds (datetime.timestamp of a naive
\* datetime, fold 0): the earlier reading when two fit, the offset before
\* the transition when none does
LocalToEpoch(naive, z) ==
    IF naive - z.before < z.at THEN naive - z.before
    ELSE IF naive - z.from >= z.at THEN naive - z.from
    ELSE naive - z.before

\* _parseDateTimeStringSingleFormat: PyInt(epoch seconds), or None when
\* strptime raises ValueError
ParseDateTimeStringSingleFormat(chars, format, z) ==
    LET m == MatchFormat(format, chars, <<>>)
    IN  IF ~ m.matched THEN None
        ELSE LET f == m.fields
                 wall == DaysFromCivil(f["%Y"], f["%m"], f["%d"]) * 86400
                         + f["%H"] * 3600 + f["%M"] * 60 + f["%S"]
             IN  IF f["%Y"] < 1 \/ f["%d"] > DaysInMonth(f["%Y"], f["%m"]) \/ f["%S"] > 59
                 THEN None
                 ELSE IF "%z" \in DOMAIN f THEN PyInt(wall - f["%z"])
                 ELSE PyInt(LocalToEpoch(wall, z))

\* the units of the relative form, in the order they are tried
RelativeUnits ==
    << [word |-> <<"m", "i", "n", "u", "t", "e">>, seconds |-> 60],
       [word |-> <<"h", "o", "u", "r">>, seconds |-> 3600],
       [word |-> <<"d", "a", "y">>, seconds |-> 86400],
       [word |-> <<"w", "e", "e", "k">>, seconds |-> 604800] >>

\* pattern.match for "^-([0-9]+)<word>s?$": the digits matched ($ also
\* matches before a newline that ends the string)
RelativeMatch(chars, word) ==
    LET line == IF chars # <<>> /\ chars[Len(chars)] = "\n"
                THEN SubSeq(chars, 1, Len(chars) - 1) ELSE chars
        run == IF line = <<>> THEN <<>> ELSE DigitRun(Tail(line))
        rest == IF line = <<>> THEN <<>> ELSE Drop(Tail(line), Len(run))
    IN  IF /\ line # <<>>
           /\ Head(line) = "-"
           /\ run # <<>>
           /\ rest \in {word, word \o <<"s">>}
        THEN [matched |-> TRUE, digits |-> run]
        ELSE NoMatch

\* one of _parseRelativeStringMinute/Hour/Day/Week: None without a match;
\* else int((datetime.datetime.now() - datetime.timedelta(unit=count)).timestamp()),
\* the subtraction done on the naive local time and raising OverflowError
\* when it leaves the range of datetime (year 1 at the least, 719162 days
\* before 1970); int() drops the fraction of the seconds, towards zero
ParseRelativeStringUnit(chars, unit, clock, z) ==
    LET m == RelativeMatch(chars, unit.word)
        count == DigitsValue(m.digits)
        local == clock.sec + OffsetAt(z, clock.sec)
        unitMinutes == unit.seconds \div 60
        epoch == LocalToEpoch(local - count * unit.seconds, z)
    IN  IF ~ m.matched THEN [error |-> "none", value |-> None]
        ELSE IF count > (local \div 60 + 719162 * 1440) \div unitMinutes
        THEN [error |-> "OverflowError", value |-> None]
        ELSE [error |-> "none",
              value |-> PyInt(IF epoch < 0 /\ clock.usec > 0 THEN epoch + 1 ELSE epoch)]

\* The strings the time parser is called with, the clock readings and the
\* local zones of the host: UTC, and a zone with a daylight-saving
\* transition (UTC-5 to UTC-4 on 2020-03-08 07:00 UTC).
TimeStrings ==
    { <<"1", "5", "9", "1", "6", "2", "6", "4", "4", "8">>,
      <<" ", "1", "2", " ">>,
      <<"-", "5">>,
      <<"1", "_", "0", "0", "0">>,
      <<"2", "0", "2", "0", "-", "0", "6", "-", "0", "8", "T", "1", "4", ":", "2", "7", ":", "5", "3">>,
      <<"2", "0", "2", "0", "-", "0", "6", "-", "0", "8", "T", "1", "4", ":", "2", "7", ":", "5", "3", "Z">>,
      <<"2", "0", "2", "0", "-", "0", "6", "-", "0", "8", "T", "1", "4", ":", "2", "7", ":", "5", "3", "+", "0", "4", "0", "0">>,
      <<"2", "0", "2", "0", "-", "0", "6", "-", "0", "8", "T", "1", "4", ":", "2", "7", ":", "5", "3", "-", "0", "4", "0", "0">>,
      <<"2", "0", "2", "0", "-", "0", "5", "-", "0", "1", "T", "0", "7", ":", "0", "2", ":", "2", "5", "+", "0", "0", "0", "0">>,
      <<"2", "0", "2", "0", "-", "0", "6", "-", "0", "8", " ", "1", "4", ":", "2", "7", ":", "5", "3">>,
      <<"2", "0", "2", "0", "/", "0", "6", "/", "0", "8", " ", "1", "4", ":", "2", "7", ":", "5", "3">>,
      <<"2", "0", "2", "0", "-", "0", "3", "-", "0", "7", "T", "1", "6", ":", "4", "0", ":", "0", "0">>,
      <<"2", "0", "2", "0", "-", "0", "2", "-", "3", "0", " ", "0", "0", ":", "0", "0", ":", "0", "0">>,
      <<"2", "0", "2", "0", "-", "0", "6", "-", "0", "8", "t", "1", "4", ":", "2", "7", ":", "5", "3", "z">>,
      <<"2", "0", "2", "0", "-", "6", "-", "8", " ", "1", ":", "2", ":", "3">>,
      <<"2", "0", "2", "0", "-", "0", "6", "-", "0", "8", "T", "1", "4", ":", "2", "7", ":", "5", "3", "+", "0", "4", ":", "0", "0">>,
      <<"-", "1", "m", "i", "n", "u", "t", "e">>,
      <<"-", "3", "m", "i", "n", "u", "t", "e", "s">>,
      <<"-", "1", "h", "o", "u", "r">>,
      <<"-", "3", "h", "o", "u", "r", "s">>,
      <<"-", "1", "d", "a", "y">>,
      <<"-", "3", "d", "a", "y">>,
      <<"-", "1", "w", "e", "e", "k">>,
      <<"-", "3", "w", "e", "e", "k", "s">>,
      <<"-", "0", "1", "2", "d", "a", "y", "s">>,
      <<"-", "2", "0", "0", "0", "0", "0", "0", "w", "e", "e", "k", "s">>,
      <<"-", "1", "w", "e", "e", "k", "\n">>,
      <<"n", "o", "n", "e", "s", "u", "c", "h">>,
      <<>>,
      <<"1", "w", "e", "e", "k">>,
      <<"-", "w", "e", "e", "k">>,
      <<"-", "1", " ", "w", "e", "e", "k">>,
      <<"-", "1", "w", "e", "e", "k", "s", "s">>,
      <<"+", "1", "w", "e", "e", "k">>,
      <<"-", "1", "W", "e", "e", "k">> }

Clocks == { [sec |-> 1591626448, usec |-> 0], [sec |-> 1583700000, usec |-> 500000] }

Zones == { UTC, [before |-> 0 - 18000, from |-> 0 - 14400, at |-> 1583650800] }

\* ------------------------------------------------------------------------
\* State
VARIABLES
    pc,            \* where the operation stands: "idle", "get", "page", "info", "post",
                   \* "descriptor", "normalized", "done", "raised"
    opName,        \* the operation called
    includeIndicatorInOutput,  \* the option of the read operations
    url,           \* getJSONFromURL's url
    numTries,      \* getJSONFromURL's numTries
    response,      \* the decoded JSON of the last successful read
    nextURL,       \* the paginators' nextURL
    callbacks,     \* the arguments of the page callback's invocations, in order
    fault,         \* the exception the operation raised
    served,        \* history: the successful reads, [url, body], in order
    lastCode,      \* history: the status of the server's last answer (200: success)
    netLog,        \* history: the requests sent, [method, url], in order, since the
                   \* operation began (in a paginator: since the loop head)
    callerParams,  \* the postParams dict object the caller passed to a write operation
    payload,       \* the postParams of submitThreatDescriptor or, in an update, those
                   \* handed to _postThreatDescriptor
    dryRun,        \* the dryRun argument of a write operation
    result         \* the value returned: the [validation error, transport error, body]
                   \* list of a write operation, the error message or None of a
                   \* validator, the list of descriptors of getInfoForIDs, the epoch
                   \* seconds or None of the time parser

VARIABLES
    ids,           \* getInfoForIDs' ids
    givenParams,   \* history: postParams as the caller passed it to a write operation
    mixedString,   \* parseTimeStringToEpochSeconds' mixedString, as its characters
    now,           \* the wall clock read by datetime.datetime.now()
    zone,          \* the host's local time zone
    attempts,      \* history: the forms the time parser has tried, in order
    APP_TOKEN,     \* Net.APP_TOKEN
    environ,       \* os.environ
    appTokenEnvName, \* setAppTokenFromEnvName's appTokenEnvName
    event,         \* lambda_handler's event
    recordIndex,   \* process_s3_event: the records gone through so far
    effects        \* history: what lambda_handler has called, in order

writeVars == <<callerParams, payload, dryRun, result>>

timeVars == <<mixedString, now, zone, attempts>>
tokenVars == <<APP_TOKEN, environ, appTokenEnvName>>
lambdaVars == <<event, recordIndex, effects>>
otherVars == <<ids, givenParams, timeVars, tokenVars, lambdaVars>>

vars == <<pc, opName, includeIndicatorInOutput, url, numTries, response, nextURL,
          callbacks, fault, served, lastCode, netLog, callerParams, payload, dryRun, result,
          otherVars>>

Init ==
    /\ pc = "idle"
    /\ opName = "none"
    /\ includeIndicatorInOutput = TRUE
    /\ url = NoURL
    /\ numTries = 0
    /\ response = None
    /\ nextURL = NoURL
    /\ callbacks = <<>>
    /\ fault = NoFault
    /\ served = <<>>
    /\ lastCode = 0
    /\ netLog = <<>>
    /\ callerParams = EmptyDict
    /\ payload = EmptyDict
    /\ dryRun = FALSE
    /\ result = NoResult
    /\ ids = <<>>
    /\ givenParams = EmptyDict
    /\ mixedString = <<>>
    /\ now = [sec |-> 0, usec |-> 0]
    /\ zone = UTC
    /\ attempts = <<>>
    /\ APP_TOKEN = None
    /\ environ = EmptyDict
    /\ appTokenEnvName = ""
    /\ event = EmptyDict
    /\ recordIndex = 0
    /\ effects = <<>>

\* a direct call getJSONFromURL(url), up to its first request
CallGetJSONFromURL ==
    /\ pc = "idle"
    /\ opName' = "getJSONFromURL"
    /\ url' = ThreatTagsURL
    /\ numTries' = 0
    /\ pc' = "get"
    /\ UNCHANGED <<includeIndicatorInOutput, response, nextURL, callbacks, fault, served,
                   lastCode, netLog>>
    /\ UNCHANGED writeVars
    /\ UNCHANGED otherVars

\* processDescriptorIDsByTagID up to its first read
CallProcessDescriptorIDsByTagID ==
    /\ pc = "idle"
    /\ opName' = "processDescriptorIDsByTagID"
    /\ includeIndicatorInOutput' \in BOOLEAN
    /\ nextURL' = TaggedObjectsURL
    /\ url' = TaggedObjectsURL
    /\ numTries' = 0
    /\ pc' = "get"
    /\ UNCHANGED <<response, callbacks, fault, served, lastCode, netLog>>
    /\ UNCHANGED writeVars
    /\ UNCHANGED otherVars

\* doPowerSearch up to its first read
CallDoPowerSearch ==
    /\ pc = "idle"
    /\ opName' = "doPowerSearch"
    /\ includeIndicatorInOutput' \in BOOLEAN
    /\ nextURL' = ThreatDescriptorsURL
    /\ url' = ThreatDescriptorsURL
    /\ numTries' = 0
    /\ pc' = "get"
    /\ UNCHANGED <<response, callbacks, fault, served, lastCode, netLog>>
    /\ UNCHANGED writeVars
    /\ UNCHANGED otherVars

\* what the server can send back as the JSON body of a successful read
BodiesFor(op) ==
    IF op = "processDescriptorIDsByTagID" THEN PagesOf(TaggedObjects)
    ELSE IF op = "doPowerSearch" THEN PagesOf(SearchDescriptors)
    ELSE IF op = "copyThreatDescriptor" THEN InfoResponses
    ELSE IF op = "getInfoForIDs" THEN InfoBodies
    ELSE {Page(<<>>, FALSE, NoURL)}

\* where the caller of getJSONFromURL goes on with the decoded body
AfterRead(op) ==
    IF op \in {"processDescriptorIDsByTagID", "doPowerSearch"} THEN "page"
    ELSE IF op \in {"copyThreatDescriptor", "getInfoForIDs"} THEN "info"
    ELSE "done"

\* one turn of getJSONFromURL's loop: the request is sent (tryGET)
SendGET ==
    /\ pc = "get"
    /\ Len(served) < MaxPages
    /\ numTries' = numTries + 1
    /\ netLog' = Append(netLog, [method |-> "GET", url |-> url])

\* ... and answered with a body that decodes as JSON
GetOK ==
    /\ SendGET
    /\ \E body \in BodiesFor(opName) :
          /\ response' = body
          /\ served' = Append(served, [url |-> url, body |-> body])
    /\ lastCode' = 200
    /\ pc' = AfterRead(opName)
    /\ UNCHANGED <<opName, includeIndicatorInOutput, url, nextURL, callbacks, fault>>
    /\ UNCHANGED writeVars
    /\ UNCHANGED otherVars

\* ... and answered with a body json.loads rejects
GetBadBody ==
    /\ SendGET
    /\ lastCode' = 200
    /\ fault' = Fault("ValueError")
    /\ pc' = "raised"
    /\ UNCHANGED <<opName, includeIndicatorInOutput, url, response, nextURL, callbacks, served>>
    /\ UNCHANGED writeVars
    /\ UNCHANGED otherVars

\* A variant of GetHTTPError that swallows the unrecovered error and ends
\* the operation as if the pages were exhausted
GetHTTPError_Swallowed ==
    /\ SendGET
    /\ \E code \in StatusCodes :
          /\ lastCode' = code
          /\ IF RetryDecision(code, numTries') = "raise"
             THEN fault' = fault /\ pc' = "done"
             ELSE fault' = fault /\ pc' = "get"
    /\ UNCHANGED <<opName, includeIndicatorInOutput, url, response, nextURL, callbacks, served>>
    /\ UNCHANGED writeVars
    /\ UNCHANGED otherVars

\* ... and answered with an error status (urllib.error.HTTPError)
GetHTTPError ==
    /\ SendGET
    /\ \E code \in StatusCodes :
          /\ lastCode' = code
          /\ IF RetryDecision(code, numTries') = "raise"
             THEN fault' = HTTPError(code) /\ pc' = "raised"
             ELSE fault' = fault /\ pc' = "get"
    /\ UNCHANGED <<opName, includeIndicatorInOutput, url, response, nextURL, callbacks, served>>
    /\ UNCHANGED writeVars
    /\ UNCHANGED otherVars

\* ... and not answered: urlopen raises URLError or a timeout, which tryGET
\* does not catch
GetURLError ==
    /\ SendGET
    /\ lastCode' = 0
    /\ fault' = Fault("URLError")
    /\ pc' = "raised"
    /\ UNCHANGED <<opName, includeIndicatorInOutput, url, response, nextURL, callbacks, served>>
    /\ UNCHANGED writeVars
    /\ UNCHANGED otherVars

\* a variant of LoopHead that reads the pointer of the turn before
LoopHead_StalePointer(next) ==
    IF next = NoURL
    THEN pc' = "done" /\ UNCHANGED <<url, numTries, netLog>>
    ELSE pc' = "get" /\ url' = nextURL /\ numTries' = 0 /\ netLog' = <<>>

\* the paginators' loop head: while nextURL != None
LoopHead(next) ==
    IF next = NoURL
    THEN pc' = "done" /\ UNCHANGED <<url, numTries, netLog>>
    ELSE pc' = "get" /\ url' = next /\ numTries' = 0 /\ netLog' = <<>>

\* processDescriptorIDsByTagID from the decoded page to the next loop head
TagPage ==
    /\ pc = "page"
    /\ opName = "processDescriptorIDsByTagID"
    /\ LET r == TagPageIDs(response.data, includeIndicatorInOutput)
       IN  /\ nextURL' = NextURLOf(response)
           /\ IF r.error # "none"
              THEN /\ fault' = Fault(r.error)
                   /\ pc' = "raised"
                   /\ UNCHANGED <<callbacks, url, numTries, netLog>>
              ELSE /\ callbacks' = Append(callbacks, r.out)
                   /\ fault' = fault
                   /\ LoopHead(nextURL')
    /\ UNCHANGED <<opName, includeIndicatorInOutput, response, served, lastCode>>
    /\ UNCHANGED writeVars
    /\ UNCHANGED otherVars

\* doPowerSearch from the decoded page to the next loop head
SearchPage ==
    /\ pc = "page"
    /\ opName = "doPowerSearch"
    /\ LET r == SearchPageDescriptors(response.data, includeIndicatorInOutput)
       IN  /\ nextURL' = NextURLOf(response)
           /\ IF r.error # "none"
              THEN /\ fault' = Fault(r.error)
                   /\ pc' = "raised"
                   /\ UNCHANGED <<callbacks, url, numTries, netLog>>
              ELSE /\ callbacks' = Append(callbacks, r.out)
                   /\ fault' = fault
                   /\ LoopHead(nextURL')
    /\ UNCHANGED <<opName, includeIndicatorInOutput, response, served, lastCode>>
    /\ UNCHANGED writeVars
    /\ UNCHANGED otherVars

\* a variant of CallGetInfoForIDs that checks the first id only
CallGetInfoForIDs_ChecksFirstOnly ==
    /\ pc = "idle"
    /\ opName' = "getInfoForIDs"
    /\ includeIndicatorInOutput' \in BOOLEAN
    /\ numTries' = 0
    /\ \E idList \in IDLists :
          /\ ids' = idList
          /\ IF IsIntLiteral(idList[1])
             THEN pc' = "get" /\ url' = InfoURL /\ fault' = fault
             ELSE pc' = "raised" /\ url' = url /\ fault' = Fault("Exception")
    /\ UNCHANGED <<response, nextURL, callbacks, served, lastCode, netLog>>
    /\ UNCHANGED writeVars
    /\ UNCHANGED <<givenParams, timeVars, tokenVars, lambdaVars>>

\* getInfoForIDs(ids) up to its read: int(id) for every id, or the
\* exception for a malformed one
CallGetInfoForIDs ==
    /\ pc = "idle"
    /\ opName' = "getInfoForIDs"
    /\ includeIndicatorInOutput' \in BOOLEAN
    /\ numTries' = 0
    /\ \E idList \in IDLists :
          /\ ids' = idList
          /\ IF \A i \in DOMAIN idList : IsIntLiteral(idList[i])
             THEN pc' = "get" /\ url' = InfoURL /\ fault' = fault
             ELSE pc' = "raised" /\ url' = url /\ fault' = Fault("Exception")
    /\ UNCHANGED <<response, nextURL, callbacks, served, lastCode, netLog>>
    /\ UNCHANGED writeVars
    /\ UNCHANGED <<givenParams, timeVars, tokenVars, lambdaVars>>

\* getInfoForIDs from the decoded response to its return: the loop over
\* the descriptors, and the list returned
GetInfoForIDsReturn ==
    /\ pc = "info"
    /\ opName = "getInfoForIDs"
    /\ LET r == InfoDescriptors(response, includeIndicatorInOutput)
       IN  IF r.error # "none"
           THEN pc' = "raised" /\ fault' = Fault(r.error) /\ result' = result
           ELSE pc' = "done" /\ fault' = fault /\ result' = r.out
    /\ UNCHANGED <<opName, includeIndicatorInOutput, url, numTries, response, nextURL,
                   callbacks, served, lastCode, netLog>>
    /\ UNCHANGED <<callerParams, payload, dryRun>>
    /\ UNCHANGED otherVars

NextRead ==
    \/ CallGetJSONFromURL
    \/ CallProcessDescriptorIDsByTagID
    \/ CallDoPowerSearch
    \/ CallGetInfoForIDs
    \/ GetOK
    \/ GetBadBody
    \/ GetHTTPError
    \/ GetURLError
    \/ TagPage
    \/ SearchPage
    \/ GetInfoForIDsReturn

SpecRead == Init /\ [][NextRead]_vars

\* ------------------------------------------------------------------------
\* The write operations

readLocals == <<includeIndicatorInOutput, numTries, response, nextURL, callbacks, served>>

\* a write operation returns its result list
Return(res) ==
    /\ result' = res
    /\ pc' = "done"

\* A variant of SubmitThreatDescriptor that returns the dry run's empty body
\* with the validation error
SubmitThreatDescriptor_BodyWithError(postParams, dry) ==
    LET errorMessage == ValidateSubmit(postParams)
    IN  IF errorMessage # None
        THEN Return(Result(errorMessage, None, Str(""))) /\ payload' = postParams /\ url' = url
        ELSE /\ payload' = postParams
             /\ url' = ThreatDescriptorsURL
             /\ IF dry
                THEN Return(Result(None, None, Str("")))
                ELSE pc' = "post" /\ result' = result

\* A variant of SubmitThreatDescriptor that goes on to the POST in a dry run
SubmitThreatDescriptor_IgnoresDryRun(postParams, dry) ==
    LET errorMessage == ValidateSubmit(postParams)
    IN  IF errorMessage # None
        THEN Return(Result(errorMessage, None, None)) /\ payload' = postParams /\ url' = url
        ELSE /\ payload' = postParams
             /\ url' = ThreatDescriptorsURL
             /\ pc' = "post"
             /\ result' = result

\* submitThreatDescriptor(postParams), then _postThreatDescriptor up to the
\* POST: the validation error returned, the dry run returned, or the
\* request about to be sent
SubmitThreatDescriptor(postParams, dry) ==
    LET errorMessage == ValidateSubmit(postParams)
    IN  IF errorMessage # None
        THEN Return(Result(errorMessage, None, None)) /\ payload' = postParams /\ url' = url
        ELSE /\ payload' = postParams
             /\ url' = ThreatDescriptorsURL
             /\ IF dry
                THEN Return(Result(None, None, Str("")))
                ELSE pc' = "post" /\ result' = result

CallSubmitThreatDescriptor ==
    /\ pc = "idle"
    /\ opName' = "submitThreatDescriptor"
    /\ \E postParams \in ParamMaps, dry \in BOOLEAN :
          /\ givenParams' = postParams
          /\ callerParams' = postParams
          /\ dryRun' = dry
          /\ SubmitThreatDescriptor(postParams, dry)
    /\ UNCHANGED <<fault, lastCode, netLog>>
    /\ UNCHANGED readLocals
    /\ UNCHANGED <<ids, timeVars, tokenVars, lambdaVars>>

\* updateThreatDescriptor(postParams), then _postThreatDescriptor up to the POST
CallUpdateThreatDescriptor ==
    /\ pc = "idle"
    /\ opName' = "updateThreatDescriptor"
    /\ \E postParams \in ParamMaps, dry \in BOOLEAN :
          LET errorMessage == ValidateUpdate(postParams)
          IN  /\ givenParams' = postParams
              /\ callerParams' = postParams
              /\ dryRun' = dry
              /\ IF errorMessage # None
                 THEN Return(Result(errorMessage, None, None)) /\ UNCHANGED <<payload, url>>
                 ELSE /\ payload' = postParams
                      /\ url' = UpdateURL(postParams["descriptor_id"])
                      /\ IF dry
                         THEN Return(Result(None, None, Str("")))
                         ELSE pc' = "post" /\ result' = result
    /\ UNCHANGED <<fault, lastCode, netLog>>
    /\ UNCHANGED readLocals
    /\ UNCHANGED <<ids, timeVars, tokenVars, lambdaVars>>

\* A variant of CopyValidated that deletes descriptor_id before it looks
\* at the validation's verdict
CopyValidated_DeletesFirst(postParams, errorMessage) ==
    IF errorMessage # None
    THEN /\ callerParams' = DictDel(postParams, "descriptor_id")
         /\ Return(Result(errorMessage, None, None))
         /\ UNCHANGED <<fault, url, ids>>
    ELSE /\ callerParams' = DictDel(postParams, "descriptor_id")
         /\ ids' = <<postParams["descriptor_id"].v>>
         /\ result' = result
         /\ IF IsIntLiteral(postParams["descriptor_id"].v)
            THEN pc' = "get" /\ url' = InfoURL /\ fault' = fault
            ELSE pc' = "raised" /\ url' = url /\ fault' = Fault("Exception")

\* A variant of CopyValidated that works on a copy of the caller's map
CopyValidated_OnACopy(postParams, errorMessage) ==
    IF errorMessage # None
    THEN /\ callerParams' = postParams
         /\ Return(Result(errorMessage, None, None))
         /\ UNCHANGED <<fault, url, ids>>
    ELSE /\ callerParams' = postParams
         /\ ids' = <<postParams["descriptor_id"].v>>
         /\ result' = result
         /\ IF IsIntLiteral(postParams["descriptor_id"].v)
            THEN pc' = "get" /\ url' = InfoURL /\ fault' = fault
            ELSE pc' = "raised" /\ url' = url /\ fault' = Fault("Exception")

\* copyThreatDescriptor after its validation: the error message returned,
\* or del postParams["descriptor_id"] on the caller's map and getInfoForIDs'
\* check of the id
CopyValidated(postParams, errorMessage) ==
    IF errorMessage # None
    THEN /\ callerParams' = postParams
         /\ Return(Result(errorMessage, None, None))
         /\ UNCHANGED <<fault, url, ids>>
    ELSE /\ callerParams' = DictDel(postParams, "descriptor_id")
         /\ ids' = <<postParams["descriptor_id"].v>>
         /\ result' = result
         /\ IF IsIntLiteral(postParams["descriptor_id"].v)
            THEN pc' = "get" /\ url' = InfoURL /\ fault' = fault
            ELSE pc' = "raised" /\ url' = url /\ fault' = Fault("Exception")

\* copyThreatDescriptor(postParams) up to the read of the source descriptor:
\* the copy validation, del postParams["descriptor_id"], and getInfoForIDs'
\* check of the id
CallCopyThreatDescriptor ==
    /\ pc = "idle"
    /\ opName' = "copyThreatDescriptor"
    /\ dryRun' \in BOOLEAN
    /\ \E postParams \in ParamMaps :
          LET errorMessage == ValidateCopy(postParams)
          IN  /\ givenParams' = postParams
              /\ CopyValidated(postParams, errorMessage)
    /\ UNCHANGED <<payload, lastCode, netLog>>
    /\ UNCHANGED readLocals
    /\ UNCHANGED <<timeVars, tokenVars, lambdaVars>>

\* copyThreatDescriptor from the answer to the read of the source to the
\* POST: the rest of getInfoForIDs, sourceDescriptor[0], the new
\* descriptor, and the delegation to submitThreatDescriptor
CopyFromSource ==
    /\ pc = "info"
    /\ opName = "copyThreatDescriptor"
    /\ LET r == InfoDescriptors(response, TRUE)
       IN  IF r.error # "none"
           THEN pc' = "raised" /\ fault' = Fault(r.error) /\ UNCHANGED <<payload, url, result>>
           ELSE IF r.out = <<>>
           THEN pc' = "raised" /\ fault' = Fault("IndexError") /\ UNCHANGED <<payload, url, result>>
           ELSE IF "raw_indicator" \notin DOMAIN r.out[1]
           THEN pc' = "raised" /\ fault' = Fault("KeyError") /\ UNCHANGED <<payload, url, result>>
           ELSE /\ fault' = fault
                /\ SubmitThreatDescriptor(CopyPayload(r.out[1], callerParams), dryRun)
    /\ UNCHANGED <<opName, callerParams, dryRun, lastCode, netLog>>
    /\ UNCHANGED readLocals
    /\ UNCHANGED otherVars

\* _postThreatDescriptor: urllib.request.urlopen(url, data) is sent
SendPOST ==
    /\ pc = "post"
    /\ netLog' = Append(netLog, [method |-> "POST", url |-> url])
    /\ UNCHANGED <<opName, url, callerParams, payload, dryRun>>
    /\ UNCHANGED readLocals

\* ... and answered with success and a JSON body
PostOK ==
    /\ SendPOST
    /\ lastCode' = 200
    /\ \E body \in PostBodies : Return(Result(None, None, body))
    /\ fault' = fault
    /\ UNCHANGED otherVars

\* Variants of PostHTTPError: one that also fills in an error message ...
PostHTTPError_WithMessage ==
    /\ SendPOST
    /\ \E code \in StatusCodes, body \in ErrorBodies :
          /\ lastCode' = code
          /\ Return(Result(Msg(<<"HTTP error">>), ErrorObject(code), body))
    /\ fault' = fault
    /\ UNCHANGED otherVars

\* ... and one that swallows the error body
PostHTTPError_NoBody ==
    /\ SendPOST
    /\ \E code \in StatusCodes :
          /\ lastCode' = code
          /\ Return(Result(None, ErrorObject(code), None))
    /\ fault' = fault
    /\ UNCHANGED otherVars

\* ... and answered with an error status and a JSON body
PostHTTPError ==
    /\ SendPOST
    /\ \E code \in StatusCodes, body \in ErrorBodies :
          /\ lastCode' = code
          /\ Return(Result(None, ErrorObject(code), body))
    /\ fault' = fault
    /\ UNCHANGED otherVars

\* ... and answered, with success or an error status, with a body
\* json.loads rejects
PostBadBody ==
    /\ SendPOST
    /\ lastCode' \in StatusCodes \cup {200}
    /\ pc' = "raised"
    /\ fault' = Fault("ValueError")
    /\ result' = result
    /\ UNCHANGED otherVars

\* ... and not answered: URLError or a timeout, which is not an HTTPError
PostURLError ==
    /\ SendPOST
    /\ lastCode' = 0
    /\ pc' = "raised"
    /\ fault' = Fault("URLError")
    /\ result' = result
    /\ UNCHANGED otherVars

NextWrite ==
    \/ CallSubmitThreatDescriptor
    \/ CallUpdateThreatDescriptor
    \/ CallCopyThreatDescriptor
    \/ GetOK
    \/ GetBadBody
    \/ GetHTTPError
    \/ GetURLError
    \/ CopyFromSource
    \/ PostOK
    \/ PostHTTPError
    \/ PostBadBody
    \/ PostURLError

SpecWrite == Init /\ [][NextWrite]_vars

\* ------------------------------------------------------------------------
\* The validators, called on their own

\* validatePostPararmsForSubmit(postParams) returns
CallValidatePostPararmsForSubmit ==
    /\ pc = "idle"
    /\ opName' = "validatePostPararmsForSubmit"
    /\ \E postParams \in FieldMaps :
          /\ callerParams' = postParams
          /\ result' = ValidateSubmit(postParams)
    /\ pc' = "done"
    /\ UNCHANGED <<url, fault, lastCode, netLog, payload, dryRun>>
    /\ UNCHANGED readLocals
    /\ UNCHANGED otherVars

\* validatePostPararmsForUpdate(postParams) returns
CallValidatePostPararmsForUpdate ==
    /\ pc = "idle"
    /\ opName' = "validatePostPararmsForUpdate"
    /\ \E postParams \in FieldMaps :
          /\ callerParams' = postParams
          /\ result' = ValidateUpdate(postParams)
    /\ pc' = "done"
    /\ UNCHANGED <<url, fault, lastCode, netLog, payload, dryRun>>
    /\ UNCHANGED readLocals
    /\ UNCHANGED otherVars

\* validatePostPararmsForCopy(postParams) returns
CallValidatePostPararmsForCopy ==
    /\ pc = "idle"
    /\ opName' = "validatePostPararmsForCopy"
    /\ \E postParams \in FieldMaps :
          /\ callerParams' = postParams
          /\ result' = ValidateCopy(postParams)
    /\ pc' = "done"
    /\ UNCHANGED <<url, fault, lastCode, netLog, payload, dryRun>>
    /\ UNCHANGED readLocals
    /\ UNCHANGED otherVars

NextValidate ==
    \/ CallValidatePostPararmsForSubmit
    \/ CallValidatePostPararmsForUpdate
    \/ CallValidatePostPararmsForCopy

SpecValidate == Init /\ [][NextValidate]_vars

\* ------------------------------------------------------------------------
\* The normalization of one descriptor, applied once and once more.  The
\* code changes the descriptor object in place; response is that object,
\* served keeps the record as the server sent it.

\* for descriptor in ...: one record of a response is taken up
TakeDescriptor ==
    /\ pc = "idle"
    /\ opName' = "normalize"
    /\ \E raw \in RawDescriptors :
          /\ response' = raw
          /\ served' = <<[url |-> NoURL, body |-> raw]>>
    /\ pc' = "descriptor"
    /\ UNCHANGED <<includeIndicatorInOutput, url, numTries, nextURL, callbacks, fault,
                   lastCode, netLog>>
    /\ UNCHANGED writeVars
    /\ UNCHANGED otherVars

\* the statements of the loop body that normalize tags and description
NormalizeDescriptor ==
    /\ pc = "descriptor"
    /\ LET r == Canonicalize(response)
       IN  IF r.error # "none"
           THEN pc' = "raised" /\ fault' = Fault(r.error) /\ UNCHANGED <<response, result>>
           ELSE pc' = "normalized" /\ fault' = fault /\ response' = r.value /\ result' = r.value
    /\ UNCHANGED <<opName, includeIndicatorInOutput, url, numTries, nextURL, callbacks,
                   served, lastCode, netLog>>
    /\ UNCHANGED <<callerParams, payload, dryRun>>
    /\ UNCHANGED otherVars

\* the same statements applied to the descriptor they have normalized
NormalizeDescriptorAgain ==
    /\ pc = "normalized"
    /\ LET r == Canonicalize(response)
       IN  IF r.error # "none"
           THEN pc' = "raised" /\ fault' = Fault(r.error) /\ response' = response
           ELSE pc' = "done" /\ fault' = fault /\ response' = r.value
    /\ UNCHANGED <<opName, includeIndicatorInOutput, url, numTries, nextURL, callbacks,
                   served, lastCode, netLog>>
    /\ UNCHANGED writeVars
    /\ UNCHANGED otherVars

NextNormalize ==
    \/ TakeDescriptor
    \/ NormalizeDescriptor
    \/ NormalizeDescriptorAgain

SpecNormalize == Init /\ [][NextNormalize]_vars

\* ------------------------------------------------------------------------
\* parseTimeStringToEpochSeconds

netVars == <<includeIndicatorInOutput, url, numTries, response, nextURL, callbacks, served,
             lastCode, netLog, callerParams, payload, dryRun, ids, givenParams>>

\* parseTimeStringToEpochSeconds(mixedString) is called
CallParseTimeStringToEpochSeconds ==
    /\ pc = "idle"
    /\ opName' = "parseTimeStringToEpochSeconds"
    /\ mixedString' \in TimeStrings
    /\ now' \in Clocks
    /\ zone' \in Zones
    /\ pc' = "int"
    /\ UNCHANGED <<attempts, fault, result>>
    /\ UNCHANGED <<netVars, tokenVars, lambdaVars>>

\* _parseIntStringToEpochSeconds: int(mixedString), or None on ValueError
ParseIntStringToEpochSeconds ==
    /\ pc = "int"
    /\ attempts' = Append(attempts, "int")
    /\ IF IsIntLiteral(mixedString)
       THEN pc' = "done" /\ result' = PyInt(IntValue(mixedString))
       ELSE pc' = "datetime" /\ result' = result
    /\ UNCHANGED <<opName, mixedString, now, zone, fault>>
    /\ UNCHANGED <<netVars, tokenVars, lambdaVars>>

\* _parseDateTimeStringToEpochSeconds: the formats tried in their order
\* up to the first that gives a value
ParseDateTimeStringToEpochSeconds ==
    /\ pc = "datetime"
    /\ LET value(i) == ParseDateTimeStringSingleFormat(mixedString, DATETIME_FORMATS[i], zone)
           hits == { i \in DOMAIN DATETIME_FORMATS : value(i) # None }
           first == CHOOSE i \in hits : \A j \in hits : i <= j
           tried == IF hits = {} THEN Len(DATETIME_FORMATS) ELSE first
       IN  /\ attempts' = attempts \o [i \in 1..tried |-> DATETIME_FORMATS[i]]
           /\ IF hits = {}
              THEN pc' = "relative" /\ result' = result
              ELSE pc' = "done" /\ result' = value(first)
    /\ UNCHANGED <<opName, mixedString, now, zone, fault>>
    /\ UNCHANGED <<netVars, tokenVars, lambdaVars>>

\* _parseRelativeStringToEpochSeconds: the units tried in their order up
\* to the first that gives a value or raises; None when none does
ParseRelativeStringToEpochSeconds ==
    /\ pc = "relative"
    /\ LET outcome(i) == ParseRelativeStringUnit(mixedString, RelativeUnits[i], now, zone)
           hits == { i \in DOMAIN RelativeUnits :
                       outcome(i).error # "none" \/ outcome(i).value # None }
           first == CHOOSE i \in hits : \A j \in hits : i <= j
           tried == IF hits = {} THEN Len(RelativeUnits) ELSE first
       IN  /\ attempts' = attempts \o [i \in 1..tried |-> RelativeUnits[i].word]
           /\ IF hits = {}
              THEN pc' = "done" /\ result' = None /\ fault' = fault
              ELSE IF outcome(first).error # "none"
              THEN pc' = "raised" /\ result' = result /\ fault' = Fault(outcome(first).error)
              ELSE pc' = "done" /\ result' = outcome(first).value /\ fault' = fault
    /\ UNCHANGED <<opName, mixedString, now, zone>>
    /\ UNCHANGED <<netVars, tokenVars, lambdaVars>>

NextTime ==
    \/ CallParseTimeStringToEpochSeconds
    \/ ParseIntStringToEpochSeconds
    \/ ParseDateTimeStringToEpochSeconds
    \/ ParseRelativeStringToEpochSeconds

SpecTime == Init /\ [][NextTime]_vars

\* ------------------------------------------------------------------------
\* setAppTokenFromEnvName

\* the names and values of the environment variables
EnvNames == {"TX_ACCESS_TOKEN", "OTHER_TOKEN"}
EnvValues == {Str("token1"), Str("token2")}

timeAndLambdaVars == <<timeVars, lambdaVars>>

\* the caller changes the process environment between two calls:
\* os.environ[name] = value, or del os.environ[name]
Putenv ==
    /\ pc \in {"idle", "done", "raised"}
    /\ opName \in {"none", "setAppTokenFromEnvName"}
    /\ \E name \in EnvNames :
          \/ \E value \in EnvValues : environ' = DictPut(environ, name, value)
          \/ name \in DOMAIN environ /\ environ' = DictDel(environ, name)
    /\ pc' = "idle"
    /\ UNCHANGED <<opName, APP_TOKEN, appTokenEnvName, fault, result>>
    /\ UNCHANGED <<netVars, timeAndLambdaVars>>

\* a variant that forgets the credential when the variable is missing
SetAppTokenFromEnvName_ClearsOnMissing ==
    /\ pc \in {"idle", "done", "raised"}
    /\ opName \in {"none", "setAppTokenFromEnvName"}
    /\ opName' = "setAppTokenFromEnvName"
    /\ appTokenEnvName' \in EnvNames
    /\ IF appTokenEnvName' \in DOMAIN environ
       THEN /\ APP_TOKEN' = environ[appTokenEnvName']
            /\ pc' = "done"
            /\ fault' = NoFault
       ELSE /\ APP_TOKEN' = None
            /\ pc' = "raised"
            /\ fault' = Fault("Exception")
    /\ UNCHANGED <<environ, result>>
    /\ UNCHANGED <<netVars, timeAndLambdaVars>>

\* setAppTokenFromEnvName(appTokenEnvName): the class attribute is shared
\* by all calls, so the operation can be called again after it returned or
\* raised
SetAppTokenFromEnvName ==
    /\ pc \in {"idle", "done", "raised"}
    /\ opName \in {"none", "setAppTokenFromEnvName"}
    /\ opName' = "setAppTokenFromEnvName"
    /\ appTokenEnvName' \in EnvNames
    /\ IF appTokenEnvName' \in DOMAIN environ
       THEN /\ APP_TOKEN' = environ[appTokenEnvName']
            /\ pc' = "done"
            /\ fault' = NoFault
       ELSE /\ APP_TOKEN' = APP_TOKEN
            /\ pc' = "raised"
            /\ fault' = Fault("Exception")
    /\ UNCHANGED <<environ, result>>
    /\ UNCHANGED <<netVars, timeAndLambdaVars>>

\* getJSONFromURL, called directly and by doPowerSearch, with its
\* scheduling: a request that was sent is answered or
\* times out (urlopen's timeout of 60 seconds), and the client's own steps
\* are taken.  Every step of a read moves pc or counts a try, which is how
\* the fairness condition tells a step from stuttering.
NextGet ==
    \/ CallGetJSONFromURL
    \/ CallDoPowerSearch
    \/ GetOK
    \/ GetBadBody
    \/ GetHTTPError
    \/ GetURLError
    \/ SearchPage

SpecGetFair == Init /\ [][NextGet]_vars /\ WF_<<pc, numTries>>(NextGet)

NextToken == Putenv \/ SetAppTokenFromEnvName

SpecToken == Init /\ [][NextToken]_vars

\* ------------------------------------------------------------------------
\* lambda_handler (hmalib/lambdas/api/api_root.py)

\* a record of an S3 event: {"s3": {"bucket": {"name": ..}, "object": {"key": .., "size": ..}}}
S3Record(key, size) ==
    [s3 |-> [bucket |-> [name |-> "bucket"], object |-> [key |-> key, size |-> size]]]

\* The records an event can hold: S3 records of an empty and of two
\* non-empty objects, a record of another source, and records with an s3
\* entry that lacks the object or the bucket.
EventRecords ==
    { S3Record("folder/", 0), S3Record("a.jpg", 5), S3Record("b/c.jpg", 7),
      [Sns |-> [Message |-> "m"]],
      [s3 |-> [bucket |-> [name |-> "bucket"]]],
      [s3 |-> [object |-> [key |-> "d.jpg", size |-> 9]]] }

SeqsUpTo(S, n) == UNION { [1..k -> S] : k \in 0..n }

\* The events the lambda is invoked with: API Gateway requests, which have
\* no Records, and notifications with up to MaxRecords records.
Events ==
    { [httpMethod |-> "GET", path |-> "/"] }
    \cup { [Records |-> records] : records \in SeqsUpTo(EventRecords, MaxRecords) }

\* a variant of is_s3_event that is content with one s3 record
is_s3_event_AnyRecord(ev) ==
    "Records" \in DOMAIN ev /\ \E i \in DOMAIN ev.Records : "s3" \in DOMAIN ev.Records[i]

\* "Records" in event and all("s3" in record for record in event["Records"])
is_s3_event(ev) ==
    "Records" \in DOMAIN ev /\ \A i \in DOMAIN ev.Records : "s3" \in DOMAIN ev.Records[i]

\* a call of one of the handler's collaborators, for the record with the index
Effect(call, index) == [call |-> call, index |-> index]

teVars == <<netVars, timeVars, tokenVars, result>>

\* process_s3_event's for statement: the next record, or the return
NextRecord(index, records) ==
    /\ recordIndex' = index
    /\ pc' = IF index = Len(records) THEN "done" ELSE "records"

\* lambda_handler(event, context): the event goes to process_s3_event or
\* to the API's handler, whose result is returned
lambda_handler ==
    /\ pc = "idle"
    /\ opName' = "lambda_handler"
    /\ event' \in Events
    /\ IF is_s3_event(event')
       THEN NextRecord(0, event'.Records) /\ effects' = effects
       ELSE /\ effects' = Append(effects, Effect("apig_wsgi_handler", 0))
            /\ pc' = "done"
            /\ recordIndex' = recordIndex
    /\ UNCHANGED fault
    /\ UNCHANGED teVars

\* a variant of process_s3_event that submits the empty objects too
process_s3_event_SubmitsEmpty ==
    /\ pc = "records"
    /\ LET index == recordIndex + 1
           record == event.Records[index]["s3"]
       IN  IF "object" \notin DOMAIN record
           THEN pc' = "raised" /\ fault' = Fault("KeyError") /\ recordIndex' = recordIndex
           ELSE IF "bucket" \notin DOMAIN record
           THEN pc' = "raised" /\ fault' = Fault("KeyError") /\ recordIndex' = index
           ELSE pc' = "record_content_submission" /\ fault' = fault /\ recordIndex' = index
    /\ UNCHANGED <<opName, event, effects>>
    /\ UNCHANGED teVars

\* process_s3_event, one turn of its loop up to the first call that
\* leaves the module: record = record["s3"]; the record of an empty object
\* is passed over; else submit_content_request_from_s3_event_record reads
\* bucket and key.  A missing entry raises KeyError.
process_s3_event ==
    /\ pc = "records"
    /\ LET index == recordIndex + 1
           record == event.Records[index]["s3"]
       IN  IF "object" \notin DOMAIN record
           THEN pc' = "raised" /\ fault' = Fault("KeyError") /\ recordIndex' = recordIndex
           ELSE IF record.object.size = 0
           THEN NextRecord(index, event.Records) /\ fault' = fault
           ELSE IF "bucket" \notin DOMAIN record
           THEN pc' = "raised" /\ fault' = Fault("KeyError") /\ recordIndex' = index
           ELSE pc' = "record_content_submission" /\ fault' = fault /\ recordIndex' = index
    /\ UNCHANGED <<opName, event, effects>>
    /\ UNCHANGED teVars

\* create_presigned_url and record_content_submission are called: the
\* submission is recorded, or one of them raises
record_content_submission ==
    /\ pc = "record_content_submission"
    /\ \/ /\ effects' = Append(effects, Effect("record_content_submission", recordIndex))
          /\ pc' = "send_submission_to_url_queue"
          /\ fault' = fault
       \/ /\ effects' = effects
          /\ pc' = "raised"
          /\ fault' = Fault("ClientError")
    /\ UNCHANGED <<opName, event, recordIndex>>
    /\ UNCHANGED teVars

\* send_submission_to_url_queue is called: the submission is sent and the
\* loop goes on, or the call raises
send_submission_to_url_queue ==
    /\ pc = "send_submission_to_url_queue"
    /\ \/ /\ effects' = Append(effects, Effect("send_submission_to_url_queue", recordIndex))
          /\ NextRecord(recordIndex, event.Records)
          /\ fault' = fault
       \/ /\ effects' = effects
          /\ pc' = "raised"
          /\ fault' = Fault("ClientError")
          /\ recordIndex' = recordIndex
    /\ UNCHANGED <<opName, event>>
    /\ UNCHANGED teVars

NextLambda ==
    \/ lambda_handler
    \/ process_s3_event
    \/ record_content_submission
    \/ send_submission_to_url_queue

SpecLambda == Init /\ [][NextLambda]_vars

Next ==
    NextRead \/ NextWrite \/ NextValidate \/ NextNormalize \/ NextTime \/ NextToken \/ NextLambda

Spec == Init /\ [][Next]_vars

\* ------------------------------------------------------------------------
\* Vocabulary of the properties

Paginating == opName \in {"processDescriptorIDsByTagID", "doPowerSearch"}

\* the GET requests sent by the current call of getJSONFromURL
GetCount == Cardinality({i \in DOMAIN netLog : netLog[i].method = "GET"})

LastRequestIsGET == netLog # <<>> /\ netLog[Len(netLog)].method = "GET"

IsServerError(code) == code >= 500 /\ code < 600

\* the server's last answer was an error status to a GET
LastGetFailed == LastRequestIsGET /\ lastCode \in StatusCodes

\* the read ended unrecovered: a status outside [500,600), or the fifth 5xx
ReadFailedUnrecovered ==
    /\ LastGetFailed
    /\ IsServerError(lastCode) => GetCount = 5

\* the ids of the THREAT_DESCRIPTOR items of a page, in page order
ExpectedIDs(data) ==
    LET kept == SelectSeq(data, LAMBDA item : item["type"] = Str(THREAT_DESCRIPTOR))
    IN  [i \in 1..Len(kept) |-> kept[i]["id"]]

SameSeq(a, b) == Len(a) = Len(b) /\ \A i \in 1..Len(a) : a[i] = b[i]

\* C1: a read whose every attempt is answered with a 5xx status sends
\* exactly five requests and then fails with the error of the fifth answer;
\* a sixth request is never sent.
C1_FiveAttemptsThenFail ==
    /\ GetCount <= 5
    /\ (pc = "get" /\ LastGetFailed) => (IsServerError(lastCode) /\ GetCount <= 4)
    /\ (LastGetFailed /\ IsServerError(lastCode) /\ GetCount = 5)
          => (pc = "raised" /\ fault = HTTPError(lastCode) /\ numTries = 5)
    /\ (pc = "raised" /\ fault.kind = "HTTPError" /\ IsServerError(fault.code))
          => (GetCount = 5 /\ fault.code = lastCode)

C1_Witness ==
    pc = "raised" /\ fault = HTTPError(599) /\ GetCount = 5 /\ opName = "getJSONFromURL"

\* C2: an error status outside [500,600) ends the read at once with that
\* error, on whichever attempt it comes, and no request follows it; a 404 to
\* the first attempt makes exactly one request.
C2_OtherErrorFailsAtOnce ==
    [][ /\ (LastGetFailed' /\ ~ IsServerError(lastCode'))
            => (pc' = "raised" /\ fault' = HTTPError(lastCode') /\ numTries' = GetCount')
        /\ (pc = "raised" => netLog' = netLog)
      ]_vars

C2_Witness ==
    pc = "raised" /\ fault = HTTPError(404) /\ Len(netLog) = 1

C2_WitnessAfterRetries ==
    pc = "raised" /\ fault = HTTPError(600) /\ Len(netLog) = 3

C3_WitnessSearch ==
    /\ pc = "done"
    /\ opName = "doPowerSearch"
    /\ Len(callbacks) = 2
    /\ Len(callbacks[1]) = 2
    /\ callbacks[1][1]["id"] = Str("11")
    /\ callbacks[1][1]["type"] # Str(THREAT_DESCRIPTOR)

\* the paginator has stopped and none of its reads failed
EndedWithoutReadFailure ==
    /\ Paginating
    /\ pc \in {"done", "raised"}
    /\ ~ LastGetFailed
    /\ fault.kind \notin {"HTTPError", "ValueError", "URLError"}

\* C4: pagination terminates exactly when a successfully fetched response
\* carries no paging.next: when no read fails, the paginator stops only
\* right after the callback of a page without paging.next, and after a page
\* with paging.next it goes on to read that URL.
C4_StopsExactlyAtPageWithoutNext ==
    /\ EndedWithoutReadFailure =>
          /\ pc = "done"
          /\ Len(callbacks) = Len(served)
          /\ NextURLOf(served[Len(served)].body) = NoURL
    /\ (Paginating /\ pc = "get" /\ served # <<>>) =>
          /\ Len(callbacks) = Len(served)
          /\ url = NextURLOf(served[Len(served)].body)
          /\ url # NoURL

\* C4 where the code keeps it: the same, for every stop that is not the
\* KeyError of doPowerSearch's del descriptor["name"].
C4_StopsExactlyAtPageWithoutNext_ApartFromKeyError ==
    /\ (EndedWithoutReadFailure /\ fault.kind # "KeyError") =>
          /\ pc = "done"
          /\ Len(callbacks) = Len(served)
          /\ NextURLOf(served[Len(served)].body) = NoURL
    /\ (Paginating /\ pc = "get" /\ served # <<>>) =>
          /\ Len(callbacks) = Len(served)
          /\ url = NextURLOf(served[Len(served)].body)
          /\ url # NoURL
    /\ fault.kind = "KeyError" => (opName = "doPowerSearch" /\ ~ includeIndicatorInOutput)

\* C5: when the read of page k fails unrecovered, the paginator ends with
\* that error raised, the callback has been invoked once for each of the
\* k-1 earlier pages and not for page k, and every request of the failed
\* read went to page k's URL (no later page is fetched).
C5_ReadFailurePropagates ==
    (Paginating /\ ReadFailedUnrecovered) =>
        /\ pc = "raised"
        /\ fault = HTTPError(lastCode)
        /\ Len(callbacks) = Len(served)
        /\ \A i \in 1..Len(netLog) : netLog[i].url = url
        /\ url = IF served = <<>> THEN nextURL ELSE NextURLOf(served[Len(served)].body)

C5_Witness ==
    /\ pc = "raised"
    /\ opName = "processDescriptorIDsByTagID"
    /\ fault = HTTPError(500)
    /\ Len(served) = 1
    /\ Len(callbacks) = 1
    /\ GetCount = 5

\* ------------------------------------------------------------------------
\* Properties of the write operations

Writing == opName \in {"submitThreatDescriptor", "updateThreatDescriptor", "copyThreatDescriptor"}

\* the operation has returned its result list
Returned == Writing /\ pc = "done"

PostCount == Cardinality({i \in DOMAIN netLog : netLog[i].method = "POST"})

\* the validation error is one of validatePostPararmsForSubmit's missing-field messages
IsMissingFieldsMessage(m) == m # None /\ m.v[1] \in {"Missing field", "Missing fields"}

\* C6 as claimed: a result with a validation error means that the operation
\* sent no request at all, and its transport error and body are null.
C6_ValidationErrorMeansNoRequest ==
    (Returned /\ result.validationError # None) =>
        /\ netLog = <<>>
        /\ result.transportError = None
        /\ result.body = None

\* C6 amended: a result with a validation error has a null transport error
\* and a null body, and no POST was sent; no request at all was sent when
\* the error is that of submit's, update's or copy's own validator; when it
\* is the error of the submit validation that copy delegates to, the
\* requests sent are the GETs that read the source descriptor.
C6_ValidationErrorMeansNoWrite ==
    (Returned /\ result.validationError # None) =>
        /\ result.transportError = None
        /\ result.body = None
        /\ PostCount = 0
        /\ netLog # <<>> =>
              /\ opName = "copyThreatDescriptor"
              /\ IsMissingFieldsMessage(result.validationError)
              /\ Len(served) = 1
              /\ \A i \in 1..Len(netLog) : netLog[i] = [method |-> "GET", url |-> InfoURL]
        /\ (opName = "copyThreatDescriptor" /\ ~ IsMissingFieldsMessage(result.validationError))
              => (netLog = <<>> /\ result.validationError = ValidateCopy(callerParams))

C6_Witness ==
    /\ Returned
    /\ opName = "copyThreatDescriptor"
    /\ result.validationError = Msg(<<"Missing field", "share_level">>)
    /\ GetCount = 2

C6_WitnessNoRequest ==
    /\ Returned
    /\ opName = "updateThreatDescriptor"
    /\ result.validationError = Msg(<<"Indicator must not be specified for update.">>)
    /\ netLog = <<>>

\* C7: a returned result has at most one of validation error and transport
\* error non-null.
C7_AtMostOneError ==
    Returned => (result.validationError = None \/ result.transportError = None)

C7_Witness ==
    /\ Returned
    /\ opName = "copyThreatDescriptor"
    /\ result.transportError = ErrorObject(500)
    /\ result.validationError = None

C8_WitnessNullBody ==
    /\ Returned
    /\ opName = "copyThreatDescriptor"
    /\ result.body = None
    /\ ~ dryRun
    /\ netLog # <<>>

\* C9: a write operation never ends with a raised fault; in particular the
\* HTTP error of a request it sent (the read of a copy's source included)
\* is returned in the result, not raised.
C9_WriteNeverRaisesTransportError ==
    Writing => ~ (pc = "raised" /\ fault.kind = "HTTPError")

\* C9, all of it: no fault of any kind ends a write operation.
C9_WriteNeverRaises ==
    Writing => pc # "raised"

\* C10: a write operation sends at most one POST, whatever the status of
\* the answer, and a POST answered with an error status ends the operation
\* with the transport error in the result.
C10_NoRetryAndErrorReturned ==
    Writing =>
        /\ PostCount <= 1
        /\ (PostCount = 1 /\ lastCode \in StatusCodes) =>
              (pc = "done" /\ result.transportError = ErrorObject(lastCode))

\* C10 where the code keeps it: at most one POST, and after an error status
\* the operation has ended, with the transport error in the result or with
\* the ValueError of an error body that is not JSON.
C10_NoRetry ==
    Writing =>
        /\ PostCount <= 1
        /\ PostCount = 1 => pc \in {"done", "raised"}
        /\ (PostCount = 1 /\ lastCode \in StatusCodes /\ pc = "done")
              => result.transportError = ErrorObject(lastCode)
        /\ (PostCount = 1 /\ lastCode \in StatusCodes /\ pc = "raised")
              => fault = Fault("ValueError")

\* ------------------------------------------------------------------------
\* Dry run

C11_WitnessUpdate ==
    /\ Returned
    /\ dryRun
    /\ opName = "updateThreatDescriptor"
    /\ result = Result(None, None, Str(""))

\* ------------------------------------------------------------------------
\* Copy: the payload handed to submitThreatDescriptor

\* the copy has read its source and called submitThreatDescriptor
Delegated == opName = "copyThreatDescriptor" /\ payload # EmptyDict

\* the source descriptor as the server sent it
RawSource == served[1].body[1]

\* the source of the example: raw_indicator "abc", a reactions mapping, tags
\* null or absent; the caller overrides description with "d" and supplies
\* neither reactions nor tags, nor an indicator of its own
CopyExample ==
    /\ Delegated
    /\ "indicator" \notin DOMAIN callerParams
    /\ RawSource["raw_indicator"] = Str("abc")
    /\ "reactions" \in DOMAIN RawSource
    /\ DictGet(RawSource, "tags") = None
    /\ DictGet(callerParams, "description") = Str("d")
    /\ "reactions" \notin DOMAIN callerParams
    /\ "tags" \notin DOMAIN callerParams

\* C12: in the example the payload handed to submit has indicator "abc",
\* no reactions key, no tags key, and description "d".
C12_CopyExamplePayload ==
    CopyExample =>
        /\ DictGet(payload, "indicator") = Str("abc")
        /\ "reactions" \notin DOMAIN payload
        /\ "tags" \notin DOMAIN payload
        /\ DictGet(payload, "description") = Str("d")

\* C12 as the code has it: the payload of the example carries the tags key,
\* with the empty list getInfoForIDs put in the place of the null.
C12_CopyExamplePayload_WithEmptyTags ==
    CopyExample =>
        /\ DictGet(payload, "indicator") = Str("abc")
        /\ "reactions" \notin DOMAIN payload
        /\ "tags" \in DOMAIN payload /\ payload["tags"] = List(<<>>)
        /\ DictGet(payload, "description") = Str("d")

C12_WitnessExample == CopyExample /\ "tags" \in DOMAIN RawSource /\ pc = "post"

\* the source descriptor as getInfoForIDs returned it
FetchedSource == InfoDescriptors(served[1].body, TRUE).out[1]

\* C13: in the payload a copy hands to submit, every recognized
\* post-parameter that both the caller's field map and the fetched source
\* descriptor have carries the caller's value; so does every recognized
\* post-parameter the caller supplied at all.
C13_CallerOverridesSource ==
    Delegated =>
        /\ \A key \in POST_PARAM_NAMES \cap DOMAIN callerParams \cap DOMAIN FetchedSource :
              key \in DOMAIN payload /\ payload[key] = callerParams[key]
        /\ \A key \in POST_PARAM_NAMES \cap DOMAIN callerParams :
              key \in DOMAIN payload /\ payload[key] = callerParams[key]

\* caller and source differ in tags, description and type, and the payload
\* has the caller's
C13_Witness ==
    /\ Delegated
    /\ {"tags", "description", "type"} \subseteq DOMAIN callerParams \cap DOMAIN RawSource
    /\ FetchedSource["tags"] = List(<< <<97>>, <<98>>, <<98, 97>> >>)
    /\ FetchedSource["description"] = Str("s")
    /\ payload["tags"] = Str("t")
    /\ payload["description"] = Str("d")
    /\ payload["type"] = Str("c")

\* C14: every key of the payload a copy hands to submit is one of
\* POST_PARAM_NAMES, and descriptor_id is not among the payload's keys;
\* nor are the source's id, raw_indicator and reactions.
C14_PayloadKeysRecognized ==
    Delegated =>
        /\ DOMAIN payload \subseteq POST_PARAM_NAMES
        /\ "descriptor_id" \notin DOMAIN payload
        /\ DOMAIN payload \cap {"id", "raw_indicator"} = {}
        /\ "reactions" \in DOMAIN payload => "reactions" \in DOMAIN callerParams

\* a source with fields that are no post-parameters (id, last_updated), and
\* a payload handed to submit
C14_Witness ==
    /\ Delegated
    /\ {"id", "last_updated", "reactions"} \subseteq DOMAIN RawSource
    /\ IsIntLiteral(RawSource["id"].v)
    /\ {"indicator", "type", "privacy_type", "privacy_members"} \subseteq DOMAIN payload

\* ------------------------------------------------------------------------
\* Properties of the validators

\* the validator has returned; callerParams is the field map it was given
\* and result the value it returned
Validated(validator) == opName = validator /\ pc = "done"

\* the field map has the key
Present(key) == key \in DOMAIN callerParams

\* the field map has the key, with a value that is not None
Specified(key) == DictGet(callerParams, key) # None

DescriptorIDDisallowed == Msg(<<"descriptor_id must not be specified for submit.">>)

\* C15 as claimed: the submit validator returns the error that disallows
\* descriptor_id whenever the field map has the key descriptor_id, whatever
\* else it has.
C15_DescriptorIDPresentIsRejected ==
    (Validated("validatePostPararmsForSubmit") /\ Present("descriptor_id"))
        => result = DescriptorIDDisallowed

\* C15 amended: the submit validator returns the error that disallows
\* descriptor_id whenever the field map has descriptor_id with a value
\* that is not null, whatever else it has; a descriptor_id of null is
\* treated as no descriptor_id, and the validator returns null or a
\* missing-field message.
C15_DescriptorIDSpecifiedIsRejected ==
    Validated("validatePostPararmsForSubmit") =>
        /\ Specified("descriptor_id") => result = DescriptorIDDisallowed
        /\ ~ Specified("descriptor_id") => (result = None \/ IsMissingFieldsMessage(result))

\* descriptor_id given and required fields missing: the descriptor_id error
C15_Witness ==
    /\ Validated("validatePostPararmsForSubmit")
    /\ Specified("descriptor_id")
    /\ ~ Specified("indicator")
    /\ ~ Present("status")
    /\ result = DescriptorIDDisallowed

\* descriptor_id: None with the six required fields passes
C15_WitnessNullDescriptorID ==
    /\ Validated("validatePostPararmsForSubmit")
    /\ Present("descriptor_id")
    /\ result = None

\* the six fields submit requires, and the place of each in the fixed order
SixFields == {"indicator", "type", "description", "share_level", "status", "privacy_type"}

Place(fieldName) ==
    CHOOSE i \in 1..6 :
        <<"indicator", "type", "description", "share_level", "status", "privacy_type">>[i] = fieldName

\* the validator's message lists exactly the fields of the set, each once,
\* in the fixed order, in the wording for one field or for several
ListsExactly(message, fields) ==
    /\ message # None
    /\ Len(message.v) >= 2
    /\ LET listed == Tail(message.v)
       IN  /\ { listed[i] : i \in DOMAIN listed } = fields
           /\ \A i, j \in DOMAIN listed : i < j => Place(listed[i]) < Place(listed[j])
           /\ message.v[1] = IF Len(listed) = 1 THEN "Missing field" ELSE "Missing fields"

\* C16 as claimed: for a field map without the key descriptor_id, the
\* submit validator returns null exactly when the map has all six keys, and
\* otherwise one message that lists exactly the keys the map lacks.
C16_ListsTheAbsentFields ==
    (Validated("validatePostPararmsForSubmit") /\ ~ Present("descriptor_id")) =>
        /\ result = None <=> \A fieldName \in SixFields : Present(fieldName)
        /\ result # None => ListsExactly(result, {fieldName \in SixFields : ~ Present(fieldName)})

\* C16 amended: for a field map without descriptor_id (or with a null
\* one), the submit validator returns null exactly when all six fields are
\* there with values that are not null, and otherwise one message that
\* lists exactly those of the six that are absent or null, each once, in
\* the fixed order.
C16_ListsTheUnspecifiedFields ==
    (Validated("validatePostPararmsForSubmit") /\ ~ Specified("descriptor_id")) =>
        /\ result = None <=> \A fieldName \in SixFields : Specified(fieldName)
        /\ result # None => ListsExactly(result, {fieldName \in SixFields : ~ Specified(fieldName)})

\* several fields missing, some absent and some null
C16_Witness ==
    /\ Validated("validatePostPararmsForSubmit")
    /\ ~ Present("descriptor_id")
    /\ ~ Present("type")
    /\ Present("status") /\ ~ Specified("status")
    /\ result = Msg(<<"Missing fields", "type", "status", "privacy_type">>)

C16_WitnessOneField ==
    /\ Validated("validatePostPararmsForSubmit")
    /\ ~ Present("descriptor_id")
    /\ result = Msg(<<"Missing field", "share_level">>)

C16_WitnessNone ==
    /\ Validated("validatePostPararmsForSubmit")
    /\ ~ Present("descriptor_id")
    /\ result = None

DescriptorIDRequired == Msg(<<"Descriptor ID must be specified for update.">>)

\* C17 as claimed: the update validator returns null exactly when the
\* field map has the key descriptor_id and neither of the keys indicator
\* and type; the error that requires descriptor_id whenever the key is
\* absent; and an error whenever the key indicator or the key type is there.
C17_UpdateByPresence ==
    Validated("validatePostPararmsForUpdate") =>
        /\ result = None <=>
              (Present("descriptor_id") /\ ~ Present("indicator") /\ ~ Present("type"))
        /\ ~ Present("descriptor_id") => result = DescriptorIDRequired
        /\ (Present("indicator") \/ Present("type")) => result # None

\* C17 amended: the same with "present" read as present with a value that
\* is not null; the check of descriptor_id comes first, then that of
\* indicator, then that of type.
C17_UpdateBySpecifiedFields ==
    Validated("validatePostPararmsForUpdate") =>
        /\ result = None <=>
              (Specified("descriptor_id") /\ ~ Specified("indicator") /\ ~ Specified("type"))
        /\ ~ Specified("descriptor_id") => result = DescriptorIDRequired
        /\ (Specified("indicator") \/ Specified("type")) => result # None
        /\ (Specified("descriptor_id") /\ Specified("indicator"))
              => result = Msg(<<"Indicator must not be specified for update.">>)
        /\ (Specified("descriptor_id") /\ ~ Specified("indicator") /\ Specified("type"))
              => result = Msg(<<"Type must not be specified for update.">>)

\* no descriptor_id, and indicator and type given: the descriptor_id error
C17_Witness ==
    /\ Validated("validatePostPararmsForUpdate")
    /\ ~ Present("descriptor_id")
    /\ Specified("indicator")
    /\ Specified("type")
    /\ result = DescriptorIDRequired

C17_WitnessNone ==
    /\ Validated("validatePostPararmsForUpdate")
    /\ Specified("descriptor_id")
    /\ Specified("status")
    /\ result = None

C17_WitnessType ==
    /\ Validated("validatePostPararmsForUpdate")
    /\ result = Msg(<<"Type must not be specified for update.">>)

\* C18 as claimed: the copy validator returns the error of the first of
\* the keys descriptor_id, privacy_type, privacy_members that the field map
\* lacks, and null exactly when it has all three.
C18_CopyByPresence ==
    Validated("validatePostPararmsForCopy") =>
        /\ result = None <=>
              (Present("descriptor_id") /\ Present("privacy_type") /\ Present("privacy_members"))
        /\ ~ Present("descriptor_id")
              => result = Msg(<<"Source-descriptor ID must be specified for copy.">>)
        /\ (Present("descriptor_id") /\ ~ Present("privacy_type"))
              => result = Msg(<<"Privacy type must be specified for copy.">>)
        /\ (Present("descriptor_id") /\ Present("privacy_type") /\ ~ Present("privacy_members"))
              => result = Msg(<<"Privacy members must be specified for copy.">>)

\* C18 amended: the same with "present" read as present with a value that
\* is not null, and "absent" as absent or null.
C18_CopyBySpecifiedFields ==
    Validated("validatePostPararmsForCopy") =>
        /\ result = None <=>
              (Specified("descriptor_id") /\ Specified("privacy_type")
                  /\ Specified("privacy_members"))
        /\ ~ Specified("descriptor_id")
              => result = Msg(<<"Source-descriptor ID must be specified for copy.">>)
        /\ (Specified("descriptor_id") /\ ~ Specified("privacy_type"))
              => result = Msg(<<"Privacy type must be specified for copy.">>)
        /\ (Specified("descriptor_id") /\ Specified("privacy_type")
                /\ ~ Specified("privacy_members"))
              => result = Msg(<<"Privacy members must be specified for copy.">>)

\* descriptor_id and privacy_type and no privacy_members
C18_Witness ==
    /\ Validated("validatePostPararmsForCopy")
    /\ Specified("descriptor_id")
    /\ Specified("privacy_type")
    /\ ~ Present("privacy_members")
    /\ result = Msg(<<"Privacy members must be specified for copy.">>)

\* neither privacy_type nor privacy_members: the privacy_type error
C18_WitnessFirstWins ==
    /\ Validated("validatePostPararmsForCopy")
    /\ Specified("descriptor_id")
    /\ ~ Present("privacy_type")
    /\ ~ Present("privacy_members")
    /\ result = Msg(<<"Privacy type must be specified for copy.">>)

\* ------------------------------------------------------------------------
\* Properties of the descriptors handed out

\* getInfoForIDs has returned its list
InfoReturned == opName = "getInfoForIDs" /\ pc = "done"

\* how often the text occurs in the list of texts
Occurrences(text, texts) == Cardinality({i \in DOMAIN texts : texts[i] = text})

\* the tags of the descriptor handed out are a list of the tag texts of
\* the raw record, each as often as there, in ascending order; the empty
\* list when the raw record has no tags or null ones
TagsNormalized(descriptor, raw) ==
    /\ "tags" \in DOMAIN descriptor
    /\ descriptor["tags"] # None
    /\ descriptor["tags"].t = "list"
    /\ LET texts == descriptor["tags"].v
       IN  /\ \A i \in 1..(Len(texts) - 1) : StrLeq(texts[i], texts[i + 1])
           /\ DictGet(raw, "tags") = None => texts = <<>>
           /\ DictGet(raw, "tags") # None =>
                 /\ Len(texts) = Len(raw["tags"].v)
                 /\ \A i \in DOMAIN texts :
                       Occurrences(texts[i], texts) = Occurrences(texts[i], raw["tags"].v)

\* C19: every descriptor getInfoForIDs returns, and every descriptor
\* doPowerSearch hands to its callback, has a tags field that is not null
\* and is the list of the raw record's tag texts in ascending order, the
\* empty list for a raw record without tags or with null tags.
C19_TagsPresentAndSorted ==
    /\ InfoReturned =>
          /\ Len(result) = Len(served[1].body)
          /\ \A j \in DOMAIN result : TagsNormalized(result[j], served[1].body[j])
    /\ opName = "doPowerSearch" =>
          \A i \in DOMAIN callbacks :
              /\ Len(callbacks[i]) = Len(served[i].body.data)
              /\ \A j \in DOMAIN callbacks[i] :
                    TagsNormalized(callbacks[i][j], served[i].body.data[j])

\* getInfoForIDs returned a descriptor whose raw tags were out of order
\* and one whose raw tags were null
C19_Witness ==
    /\ InfoReturned
    /\ \E j \in DOMAIN result :
          /\ DictGet(served[1].body[j], "tags") = TagsWrapper(<< <<98, 97>>, <<98>>, <<97>> >>)
          /\ result[j]["tags"] = List(<< <<97>>, <<98>>, <<98, 97>> >>)
    /\ \E j \in DOMAIN result :
          /\ "tags" \in DOMAIN served[1].body[j]
          /\ DictGet(served[1].body[j], "tags") = None
          /\ result[j]["tags"] = List(<<>>)

\* doPowerSearch handed its callback a descriptor whose raw tags were out
\* of order and one without tags
C19_WitnessSearch ==
    /\ opName = "doPowerSearch"
    /\ \E i \in DOMAIN callbacks :
          /\ \E j \in DOMAIN callbacks[i] :
                /\ "tags" \notin DOMAIN served[i].body.data[j]
                /\ callbacks[i][j]["tags"] = List(<<>>)
          /\ \E j \in DOMAIN callbacks[i] :
                /\ "tags" \in DOMAIN served[i].body.data[j]
                /\ callbacks[i][j]["tags"] = List(<< <<97>>, <<98>> >>)

\* ------------------------------------------------------------------------
\* Properties of the normalization

\* the normalization has been applied to the record served[1].body, and
\* result is what the first application made of it
NormalizedOnce == opName = "normalize" /\ pc \in {"normalized", "done", "raised"} /\ result # NoResult

\* the description of the normalized descriptor: the empty string for a
\* null or absent one, the raw record's own otherwise
DescriptionNormalized ==
    LET raw == served[1].body
    IN  /\ "description" \in DOMAIN result
        /\ result["description"] =
              (IF DictGet(raw, "description") = None THEN Str("") ELSE raw["description"])

\* C20: the normalization sets a null or absent description to the empty
\* string, and applied to the descriptor it has normalized it succeeds and
\* leaves the descriptor as the first application made it.
C20_NormalizationIdempotent ==
    NormalizedOnce =>
        /\ DescriptionNormalized
        /\ pc # "raised"
        /\ pc = "done" => response = result

\* C20 as the code has it: the description is normalized as claimed, and
\* the second application raises TypeError at tags["data"], the tags being
\* a list by then.
C20_SecondNormalizationRaises ==
    NormalizedOnce =>
        /\ DescriptionNormalized
        /\ pc # "done"
        /\ pc = "raised" => (fault = Fault("TypeError") /\ response = result)

C20_WitnessDescription ==
    /\ NormalizedOnce
    /\ "description" \notin DOMAIN served[1].body
    /\ result["description"] = Str("")
    /\ pc = "raised"

\* ------------------------------------------------------------------------
\* includeIndicatorInOutput

\* the descriptors handed out so far: those getInfoForIDs returned, those
\* doPowerSearch gave its callback
HandedOut ==
    IF InfoReturned THEN { result[j] : j \in DOMAIN result }
    ELSE IF opName = "doPowerSearch"
    THEN UNION { { callbacks[i][j] : j \in DOMAIN callbacks[i] } : i \in DOMAIN callbacks }
    ELSE {}

\* the operation raised while it went through the items of a response
RaisedOnItem == pc = "raised" /\ fault.kind \in {"KeyError", "TypeError"}

\* C21: with includeIndicatorInOutput false, no descriptor that
\* getInfoForIDs returns or doPowerSearch hands to its callback has the key
\* raw_indicator, and neither operation raises on the items of a response.
C21_RawIndicatorRemoved ==
    (opName \in {"getInfoForIDs", "doPowerSearch"} /\ ~ includeIndicatorInOutput) =>
        /\ \A descriptor \in HandedOut : "raw_indicator" \notin DOMAIN descriptor
        /\ ~ RaisedOnItem

\* C21 for getInfoForIDs alone, where the code keeps it: the key is removed
\* and the other fields are left as they would be with the option on.
C21_RawIndicatorRemoved_GetInfoForIDs ==
    (InfoReturned /\ ~ includeIndicatorInOutput) =>
        /\ \A descriptor \in HandedOut : "raw_indicator" \notin DOMAIN descriptor
        /\ result = [j \in DOMAIN result |->
                        DictDel(InfoDescriptors(served[1].body, TRUE).out[j], "raw_indicator")]

\* ... and what doPowerSearch does with the option off: KeyError on the
\* first item of a page, so that only empty pages reach the callback.
C21_SearchRaisesOnFirstItem ==
    (opName = "doPowerSearch" /\ ~ includeIndicatorInOutput) =>
        /\ HandedOut = {}
        /\ (pc \in {"done", "raised"} /\ served # <<>> /\ served[Len(served)].body.data # <<>>
               /\ lastCode = 200)
              => (pc = "raised" /\ fault = Fault("KeyError"))

C21_WitnessGetInfoForIDs ==
    /\ InfoReturned
    /\ ~ includeIndicatorInOutput
    /\ Len(result) = 2

\* ------------------------------------------------------------------------
\* Properties of parseTimeStringToEpochSeconds

TimeParsed == opName = "parseTimeStringToEpochSeconds" /\ pc \in {"done", "raised"}

\* every attempt the parser can make, in the order of the code
AllAttempts ==
    <<"int">> \o DATETIME_FORMATS \o [i \in DOMAIN RelativeUnits |-> RelativeUnits[i].word]

\* what the first form that mixedString matches gives: the integer, the
\* first format's epoch seconds, or the marker "relative"
FirstForm ==
    LET value(i) == ParseDateTimeStringSingleFormat(mixedString, DATETIME_FORMATS[i], zone)
        formats == { i \in DOMAIN DATETIME_FORMATS : value(i) # None }
    IN  IF IsIntLiteral(mixedString) THEN PyInt(IntValue(mixedString))
        ELSE IF formats # {} THEN value(CHOOSE i \in formats : \A j \in formats : i <= j)
        ELSE IF \E i \in DOMAIN RelativeUnits : RelativeMatch(mixedString, RelativeUnits[i].word).matched
        THEN Str("relative")
        ELSE None

\* the attempts are made in the order of the code and stop at the first
\* that matches; the result is that of the first matching form, and None
\* exactly when no form matches
TimeParsedInOrder ==
    /\ \E n \in 0..Len(AllAttempts) : attempts = SubSeq(AllAttempts, 1, n)
    /\ pc = "done" =>
          /\ (result = None) <=> (FirstForm = None)
          /\ FirstForm # Str("relative") => result = FirstForm
          /\ result # None => result.t = "int"

\* C22: parseTimeStringToEpochSeconds tries the integer form, the five
\* absolute formats in their listed order and the relative forms minute,
\* hour, day, week, returns the result of the first that matches, never
\* raises, returns None exactly when nothing matches, and returns an
\* integer input unchanged.
C22_FirstMatchNeverRaises ==
    opName = "parseTimeStringToEpochSeconds" =>
        /\ pc # "raised"
        /\ TimeParsedInOrder

\* C22 without "never raises": order, first match and None hold ...
C22_FirstMatchInOrder ==
    opName = "parseTimeStringToEpochSeconds" => TimeParsedInOrder

\* ... and the parser raises OverflowError, for a relative string whose
\* count takes the local time out of the range of datetime, and only then.
C22_RaisesOnHugeCount ==
    TimeParsed =>
        (pc = "raised" <=>
            \E i \in DOMAIN RelativeUnits :
                /\ RelativeMatch(mixedString, RelativeUnits[i].word).matched
                /\ ParseRelativeStringUnit(mixedString, RelativeUnits[i], now, zone).error
                       = "OverflowError"
                /\ fault = Fault("OverflowError"))

C22_WitnessFirstFormatWins ==
    /\ TimeParsed
    /\ pc = "done"
    /\ attempts = <<"int", DATETIME_FORMATS[1]>>
    /\ ParseDateTimeStringSingleFormat(mixedString, DATETIME_FORMATS[5], zone) \notin {None, result}

C22_WitnessRaises ==
    /\ TimeParsed
    /\ pc = "raised"
    /\ attempts = AllAttempts

\* the relative form that mixedString has: the unit's seconds and the count
RelativeForm ==
    LET units == { i \in DOMAIN RelativeUnits :
                     RelativeMatch(mixedString, RelativeUnits[i].word).matched }
        i == CHOOSE u \in units : TRUE
    IN  IF units = {} THEN NoMatch
        ELSE [matched |-> TRUE,
              seconds |-> RelativeUnits[i].seconds,
              count |-> DigitsValue(RelativeMatch(mixedString, RelativeUnits[i].word).digits)]

\* C23: for a string "-N<unit>" the parser returns the current time minus
\* N times the unit's seconds (60, 3600, 86400, 604800).
C23_RelativeIsNowMinusCount ==
    (TimeParsed /\ RelativeForm.matched) =>
        /\ pc = "done"
        /\ result = PyInt(now.sec - RelativeForm.count * RelativeForm.seconds)

\* C23 as the code keeps it: on a host whose zone is UTC ...
C23_ExactInUTC ==
    (TimeParsed /\ RelativeForm.matched /\ pc = "done" /\ zone = UTC) =>
        result = PyInt(now.sec - RelativeForm.count * RelativeForm.seconds)

\* ... and in general off by the change of the local UTC offset between
\* the result and now, the subtraction being done on the local wall clock.
C23_OffByTheZoneShift ==
    (TimeParsed /\ RelativeForm.matched /\ pc = "done") =>
        /\ result.t = "int"
        /\ result.v[1] = now.sec - RelativeForm.count * RelativeForm.seconds
                           + OffsetAt(zone, now.sec) - OffsetAt(zone, result.v[1])

C23_WitnessAcrossTransition ==
    /\ TimeParsed
    /\ RelativeForm.matched
    /\ pc = "done"
    /\ result.v[1] = now.sec - RelativeForm.count * RelativeForm.seconds + 3600

\* ------------------------------------------------------------------------
\* Properties of setAppTokenFromEnvName

\* C24: setAppTokenFromEnvName sets the credential to the value of the
\* named environment variable when the variable is set; when it is not set
\* the call raises and the credential configured before is left as it was.
C24_TokenFromEnvironment ==
    [][(opName' = "setAppTokenFromEnvName" /\ pc' \in {"done", "raised"}) =>
          IF appTokenEnvName' \in DOMAIN environ
          THEN pc' = "done" /\ APP_TOKEN' = environ[appTokenEnvName']
          ELSE pc' = "raised" /\ fault' = Fault("Exception") /\ APP_TOKEN' = APP_TOKEN]_vars

C24_WitnessSet ==
    /\ opName = "setAppTokenFromEnvName"
    /\ pc = "done"
    /\ APP_TOKEN = Str("token2")
    /\ DictGet(environ, appTokenEnvName) = Str("token2")

C24_WitnessKeptOnRaise ==
    /\ opName = "setAppTokenFromEnvName"
    /\ pc = "raised"
    /\ APP_TOKEN = Str("token1")
    /\ appTokenEnvName \notin DOMAIN environ

\* ------------------------------------------------------------------------
\* Properties of getInfoForIDs' check of the ids

\* some id of the list is one that int() does not accept
SomeIDMalformed == \E i \in DOMAIN ids : ~ IsIntLiteral(ids[i])

\* C25: getInfoForIDs called with a list in which some id is not an
\* integer string raises before any request is made, wherever the
\* malformed id stands in the list.
C25_MalformedIDFailsBeforeAnyRequest ==
    (opName = "getInfoForIDs" /\ SomeIDMalformed) =>
        /\ pc = "raised"
        /\ fault = Fault("Exception")
        /\ numTries = 0
        /\ netLog = <<>>
        /\ served = <<>>

C25_WitnessMalformedLast ==
    /\ opName = "getInfoForIDs"
    /\ pc = "raised"
    /\ Len(ids) = 3
    /\ IsIntLiteral(ids[1]) /\ IsIntLiteral(ids[2]) /\ ~ IsIntLiteral(ids[3])

C25_WitnessWellFormedRequests ==
    /\ opName = "getInfoForIDs"
    /\ ~ SomeIDMalformed
    /\ netLog # <<>>

\* ------------------------------------------------------------------------
\* Properties of getJSONFromURL's number of requests

\* C26: every getJSONFromURL ends, after one to five requests: a request
\* is followed by another exactly when its answer is a 5xx status and it is
\* not the fifth, so that the requests number the position of the first
\* answer that is not a 5xx status, or five; an answer that decodes, after
\* any number of 5xx answers, is what the read returns.
C26_RequestsUntilFirstNon5xxOrFive ==
    /\ [][(pc = "get" /\ numTries' = numTries + 1) =>
             /\ numTries' \in 1..5
             /\ LastGetFailed' => (pc' = "get" <=> (IsServerError(lastCode') /\ numTries' < 5))
             /\ ~ LastGetFailed' => pc' # "get"
             /\ (lastCode' = 200 /\ pc' # "raised") =>
                   /\ pc' = AfterRead(opName)
                   /\ served' = Append(served, [url |-> url, body |-> response'])
             /\ pc' # "get" => GetCount' = numTries']_vars
    /\ (pc = "get" /\ Len(served) < MaxPages) ~> (pc # "get" /\ GetCount \in 1..5)

C26_WitnessSuccessAfterRetries ==
    /\ opName = "getJSONFromURL"
    /\ pc = "done"
    /\ numTries = 3
    /\ Len(netLog) = 3
    /\ response = served[1].body

\* ------------------------------------------------------------------------
\* Properties of the order of reads and callbacks in a pagination

StartURL == IF opName = "doPowerSearch" THEN ThreatDescriptorsURL ELSE TaggedObjectsURL

\* the url the read of the next page has to go to: the start url, or the
\* paging.next of the page read last
URLOfNextPage ==
    IF served = <<>> THEN StartURL ELSE served[Len(served)].body.next

\* C27: in a pagination reads and callbacks alternate: a request for page
\* k+1 is sent only when the callback has had page k, the callback gets
\* page k only when page k has been read, and the requests for page k+1 go
\* to the paging.next of page k.
C27_FetchesAndCallbacksAlternate ==
    [][Paginating =>
          /\ Len(callbacks') \in {Len(served') - 1, Len(served')}
          /\ numTries' = numTries + 1 =>
                /\ Len(callbacks) = Len(served)
                /\ netLog'[Len(netLog')] = [method |-> "GET", url |-> URLOfNextPage]
                /\ served = <<>> \/ served[Len(served)].body.hasPaging
          /\ callbacks' # callbacks =>
                /\ Len(callbacks') = Len(callbacks) + 1
                /\ Len(served) = Len(callbacks')
                /\ served' = served
                /\ lastCode = 200
          /\ served' # served =>
                /\ Len(served') = Len(served) + 1
                /\ callbacks' = callbacks]_vars

C27_WitnessSecondPage ==
    /\ opName = "processDescriptorIDsByTagID"
    /\ pc = "done"
    /\ Len(served) = 2
    /\ Len(callbacks) = 2
    /\ served[2].url = served[1].body.next
    /\ served[2].url \in NextURLs

\* ------------------------------------------------------------------------
\* Properties of the tags kept by the normalization

\* the tag texts of the raw record, none for absent or null tags
RawTexts(raw) == IF DictGet(raw, "tags") = None THEN <<>> ELSE raw["tags"].v

\* ys is xs in another order
IsPermutation(xs, ys) ==
    /\ Len(xs) = Len(ys)
    /\ \E p \in [DOMAIN xs -> DOMAIN xs] :
          /\ \A i, j \in DOMAIN xs : p[i] = p[j] => i = j
          /\ \A i \in DOMAIN xs : ys[i] = xs[p[i]]

\* C28: the normalization keeps duplicates: the tags of the normalized
\* descriptor are the texts of the raw tags in another order, as many as
\* the raw tags, and in ascending order.
C28_TagsSortedPermutation ==
    NormalizedOnce =>
        LET texts == result["tags"].v
        IN  /\ result["tags"].t = "list"
            /\ Len(texts) = Len(RawTexts(served[1].body))
            /\ IsPermutation(RawTexts(served[1].body), texts)
            /\ \A i \in 1..(Len(texts) - 1) : StrLeq(texts[i], texts[i + 1])

C28_WitnessDuplicateKept ==
    /\ NormalizedOnce
    /\ RawTexts(served[1].body) = << <<98>>, <<97>>, <<98>> >>
    /\ result["tags"] = List(<< <<97>>, <<98>>, <<98>> >>)

\* ------------------------------------------------------------------------
\* Properties of what the write operations do to the caller's map

\* copyThreatDescriptor's validation accepted the map the caller passed
CopyValidationPassed == opName = "copyThreatDescriptor" /\ ValidateCopy(givenParams) = None

\* copyThreatDescriptor ended after a passed validation without a POST answered 200
CopyFailedLater ==
    /\ CopyValidationPassed
    /\ \/ pc = "raised"
       \/ pc = "done" /\ (result.validationError # None \/ result.transportError # None)

\* C29: copyThreatDescriptor takes descriptor_id out of the caller's map
\* whenever the copy validation passes, also when the fetch of the source,
\* the submit validation or the POST fails later, and leaves the caller's
\* map as it was when the copy validation fails; submitThreatDescriptor and
\* updateThreatDescriptor leave the caller's map as it was.
C29_CallerMapAfterWrite ==
    Writing =>
        callerParams = (IF CopyValidationPassed
                        THEN DictDel(givenParams, "descriptor_id")
                        ELSE givenParams)

C29_WitnessRemovedThoughCopyFailed ==
    /\ CopyFailedLater
    /\ "descriptor_id" \in DOMAIN givenParams
    /\ "descriptor_id" \notin DOMAIN callerParams
    /\ pc = "done"
    /\ result.validationError # None

C29_WitnessRemovedThoughFetchRaised ==
    /\ CopyFailedLater
    /\ pc = "raised"
    /\ netLog # <<>>
    /\ "descriptor_id" \notin DOMAIN callerParams

C29_WitnessUnchangedOnRejectedCopy ==
    /\ opName = "copyThreatDescriptor"
    /\ ValidateCopy(givenParams) # None
    /\ "descriptor_id" \in DOMAIN givenParams
    /\ callerParams = givenParams
    /\ pc = "done"

C29_WitnessUpdateKeepsMap ==
    /\ opName = "updateThreatDescriptor"
    /\ pc = "done"
    /\ lastCode = 200
    /\ "descriptor_id" \in DOMAIN callerParams

\* ------------------------------------------------------------------------
\* Properties of lambda_handler

\* the event has the key Records and every record has the key s3
RecordsAllS3 ==
    "Records" \in DOMAIN event /\ \A i \in DOMAIN event.Records : "s3" \in DOMAIN event.Records[i]

\* the record is one of a non-empty object (a record without object
\* entry is none: the handler raises on it)
NonEmptyObject(record) ==
    /\ "object" \in DOMAIN record["s3"]
    /\ record["s3"].object.size # 0

\* what the handler has to call for the first n records, in order: for
\* each record of a non-empty object the recording, then the sending
RECURSIVE Submissions(_, _)
Submissions(records, n) ==
    IF n = 0 THEN <<>>
    ELSE Submissions(records, n - 1)
           \o (IF NonEmptyObject(records[n])
               THEN <<Effect("record_content_submission", n),
                      Effect("send_submission_to_url_queue", n)>>
               ELSE <<>>)

IsPrefix(xs, ys) == Len(xs) <= Len(ys) /\ xs = SubSeq(ys, 1, Len(xs))

\* C30: lambda_handler takes the event for an S3 event exactly when it has
\* Records and every record has s3 (an event with no records included) and
\* hands every other event to the API's handler; of an S3 event it submits
\* the records of non-empty objects once each, in the order of the records,
\* recording a submission before sending it, and passes over the records
\* of empty objects.
C30_S3EventRecordsSubmittedInOrder ==
    opName = "lambda_handler" =>
        IF RecordsAllS3
        THEN /\ IsPrefix(effects, Submissions(event.Records, Len(event.Records)))
             /\ pc = "done" => effects = Submissions(event.Records, Len(event.Records))
             /\ pc = "records" => effects = Submissions(event.Records, recordIndex)
        ELSE /\ pc = "done"
             /\ effects = <<Effect("apig_wsgi_handler", 0)>>

C30_WitnessSkipsAndSubmits ==
    /\ opName = "lambda_handler"
    /\ pc = "done"
    /\ RecordsAllS3
    /\ Len(event.Records) = 3
    /\ event.Records[2] = S3Record("folder/", 0)
    /\ effects = <<Effect("record_content_submission", 1),
                   Effect("send_submission_to_url_queue", 1),
                   Effect("record_content_submission", 3),
                   Effect("send_submission_to_url_queue", 3)>>

C30_WitnessNoRecords ==
    /\ opName = "lambda_handler"
    /\ pc = "done"
    /\ "Records" \in DOMAIN event
    /\ event.Records = <<>>
    /\ effects = <<>>

C30_WitnessAPIEvent ==
    /\ opName = "lambda_handler"
    /\ "Records" \in DOMAIN event
    /\ event.Records # <<>>
    /\ "s3" \in DOMAIN event.Records[1]
    /\ effects = <<Effect("apig_wsgi_handler", 0)>>

====
